---- MODULE Spec2Model ----
(***************************************************************************)
(* A model of d64lib (src/d64.cpp): the disk image as raw bytes, the BAM,  *)
(* the sector allocator, the directory, sequential and REL file chains and *)
(* the BAM verifier.  The image is kept byte for byte: every structure of  *)
(* the library is a view over the bytes of a sector, as in the source.     *)
(***************************************************************************)
EXTENDS Integers, Sequences, FiniteSets, TLC

\* ------------------------------------------------------------------------
\* Constants of d64_types.h
\* ------------------------------------------------------------------------
TRACKS_35 == 35
TRACKS_40 == 40
SECTOR_SIZE == 256
DISK_NAME_SZ == 16
FILE_NAME_SZ == 16
UNUSED3_SZ == 5
UNUSED4_SZ == 84
DIR_ENTRY_SZ == 30
DIRECTORY_TRACK == 18
DIRECTORY_SECTOR == 1
TRACK_SECTOR == 0
SECTOR_SECTOR == 1
BAM_SECTOR == 0
FILES_PER_SECTOR == 8
SIDE_SECTOR_ENTRY_SIZE == 6
SIDE_SECTOR_CHAIN_SZ == 120
A0_VALUE == 160
DOS_VERSION == 65
DOS_TYPE == 50
\* enum diskType { thirty_five_track, forty_track }
thirty_five_track == 0
forty_track == 1
\* enum d64FileTypes
DEL == 0
SEQ == 1
PRG == 2
USR == 3
REL == 4
\* the byte formatDisk and init_disk fill the image with
FILL_BYTE == 1
\* "NEW DISK"
NEW_DISK == <<78, 69, 87, 32, 68, 73, 83, 75>>

\* ------------------------------------------------------------------------
\* Bounds of the model
\* ------------------------------------------------------------------------
\* calls of findAndAllocateFreeSector recorded by the allocation test
MaxAllocs == 45

\* ------------------------------------------------------------------------
\* State
\* ------------------------------------------------------------------------
VARIABLES
    disktype,        \* d64::disktype
    data,            \* d64::data, sparse: sector index -> 256 bytes; a sector
                     \* absent from the domain still holds the format fill
    lastSectorUsed,  \* d64::lastSectorUsed, by track - 1
    sptOob,          \* what the read SECTORS_PER_TRACK[40] (one past the end) yields
    replaceBit,      \* the bit c64FileType(d64FileTypes) never initialises
    flip,            \* the BAM bit the verifier test flipped, and the BAM before
    status,          \* "run", "hung" (a loop that never ends), "crashed"
    ub,              \* a write outside the image buffer has happened
    ret,             \* the last call and what it returned
    prevData,        \* the image before the last call
    allocations,     \* the allocation test's list of returned addresses
    files,           \* names and contents handed to add calls that returned true
    counts           \* calls made, adds and removes that returned true

vars == <<disktype, data, lastSectorUsed, sptOob, replaceBit, flip, status, ub, ret,
          prevData, allocations, files, counts>>

\* ------------------------------------------------------------------------
\* Geometry (d64.h: SECTORS_PER_TRACK, TRACK_OFFSETS, INTERLEAVE)
\* ------------------------------------------------------------------------
SECTORS_PER_TRACK ==
    <<21, 21, 21, 21, 21, 21, 21, 21, 21, 21, 21, 21, 21, 21, 21, 21, 21,
      19, 19, 19, 19, 19, 19, 19,
      18, 18, 18, 18, 18, 18,
      17, 17, 17, 17, 17, 17, 17, 17, 17, 17>>

INTERLEAVE == 10

\* SECTORS_PER_TRACK[i] as the source indexes it, from 0; index 40 is one
\* past the end of the table
SptAt(i, oob) == IF i < TRACKS_40 THEN SECTORS_PER_TRACK[i + 1] ELSE oob

\* the table of the byte offsets of the tracks, each entry the one before it
\* plus the sectors of that track
RECURSIVE TrackOffsetsFrom(_)
TrackOffsetsFrom(table) ==
    IF Len(table) >= TRACKS_40 THEN table
    ELSE TrackOffsetsFrom(Append(table, table[Len(table)]
                                        + SECTORS_PER_TRACK[Len(table)] * SECTOR_SIZE))

TRACK_OFFSETS == TrackOffsetsFrom(<<0>>)

\* TRACK_OFFSETS[i], from 0
TrackOffsetAt(i) == TRACK_OFFSETS[i + 1]

TracksOf(dt) == IF dt = thirty_five_track THEN TRACKS_35 ELSE TRACKS_40
DiskSizeOf(dt) == IF dt = thirty_five_track THEN 174848 ELSE 196608
TRACKS == TracksOf(disktype)

\* d64::calcOffset: note the test sector > SECTORS_PER_TRACK[track - 1]
calcOffset(tracks, track, sector) ==
    IF track < 1 \/ track > tracks \/ sector < 0 \/ sector > SptAt(track - 1, 0)
    THEN -1
    ELSE TrackOffsetAt(track - 1) + sector * SECTOR_SIZE

\* ------------------------------------------------------------------------
\* Bytes of the image
\* ------------------------------------------------------------------------
FillSector == [k \in 1..SECTOR_SIZE |-> FILL_BYTE]
ZeroSector == [k \in 1..SECTOR_SIZE |-> 0]

SectorBytes(img, idx) == IF idx \in DOMAIN img THEN img[idx] ELSE FillSector

\* data[off]
Byte(img, off) == SectorBytes(img, off \div SECTOR_SIZE)[(off % SECTOR_SIZE) + 1]

\* data[off] = v
PutByte(img, off, v) ==
    LET idx == off \div SECTOR_SIZE
        at  == off % SECTOR_SIZE
        old == SectorBytes(img, idx)
    IN  (idx :> (SubSeq(old, 1, at) \o <<v>> \o SubSeq(old, at + 2, SECTOR_SIZE))) @@ img

\* data[off + k - 1] = bytes[k] for every k, all inside one sector
PutBytes(img, off, bytes) ==
    LET idx == off \div SECTOR_SIZE
        at  == off % SECTOR_SIZE
        old == SectorBytes(img, idx)
    IN  (idx :> (SubSeq(old, 1, at) \o SubSeq(bytes, 1, Len(bytes))
                 \o SubSeq(old, at + Len(bytes) + 1, SECTOR_SIZE)))
        @@ img

Pow2(k) == <<1, 2, 4, 8, 16, 32, 64, 128>>[k + 1]
BitSet(b, k) == (b \div Pow2(k)) % 2 = 1
WithBit(b, k) == IF BitSet(b, k) THEN b ELSE b + Pow2(k)
WithoutBit(b, k) == IF BitSet(b, k) THEN b - Pow2(k) ELSE b

\* ------------------------------------------------------------------------
\* BAM views (struct bam, d64::bamtrack)
\* ------------------------------------------------------------------------
\* the BAM sector is (18, 0)
BamBase == TrackOffsetAt(DIRECTORY_TRACK - 1) + BAM_SECTOR * SECTOR_SIZE

\* offset of bamtrack(t): tracks 1..35 at $04.., tracks 36..40 in the
\* bytes at $AC.. (unused4)
BamTrackOff(t) ==
    BamBase + (IF t < TRACKS_35 THEN 4 + 4 * t ELSE 172 + 4 * (t - TRACKS_35))

\* bamtrack(t)->free and bamtrack(t)->bytes[b]
BamFree(img, t) == Byte(img, BamTrackOff(t))
BamByte(img, t, b) == Byte(img, BamTrackOff(t) + 1 + b)
\* sector s of track (t + 1) is marked free
BamBit(img, t, s) == BitSet(BamByte(img, t, s \div 8), s % 8)

\* ------------------------------------------------------------------------
\* BAM operations
\* ------------------------------------------------------------------------
\* freeSector without the two tests for (18,1) and (18,0)
freeSectorUnprotected(tracks, oob, img, track, sector) ==
    IF track < 1 \/ track > tracks \/ sector < 0 \/ sector > SptAt(track, oob)
    THEN [img |-> img, ok |-> FALSE]
    ELSE LET byte == sector \div 8
             bit  == sector % 8
             val  == BamByte(img, track - 1, byte)
         IN  IF BitSet(val, bit)
             THEN [img |-> img, ok |-> FALSE]
             ELSE LET img1 == PutByte(img, BamTrackOff(track - 1),
                                      (BamFree(img, track - 1) + 1) % 256)
                  IN  [img |-> PutByte(img1, BamTrackOff(track - 1) + 1 + byte,
                                       WithBit(val, bit)),
                       ok |-> TRUE]

\* freeSector without the increment of the free count
freeSectorKeepsCount(tracks, oob, img, track, sector) ==
    IF track < 1 \/ track > tracks \/ sector < 0 \/ sector > SptAt(track, oob)
    THEN [img |-> img, ok |-> FALSE]
    ELSE IF track = DIRECTORY_TRACK /\ sector = DIRECTORY_SECTOR
    THEN [img |-> img, ok |-> FALSE]
    ELSE IF track = DIRECTORY_TRACK /\ sector = BAM_SECTOR
    THEN [img |-> img, ok |-> FALSE]
    ELSE LET byte == sector \div 8
             bit  == sector % 8
             val  == BamByte(img, track - 1, byte)
         IN  IF BitSet(val, bit)
             THEN [img |-> img, ok |-> FALSE]
             ELSE [img |-> PutByte(img, BamTrackOff(track - 1) + 1 + byte,
                                   WithBit(val, bit)),
                   ok |-> TRUE]

\* d64::freeSector(track, sector): the image after the call and what it returns.
\* The range test reads SECTORS_PER_TRACK[track], not [track - 1].
freeSector(tracks, oob, img, track, sector) ==
    IF track < 1 \/ track > tracks \/ sector < 0 \/ sector > SptAt(track, oob)
    THEN [img |-> img, ok |-> FALSE]
    ELSE IF track = DIRECTORY_TRACK /\ sector = DIRECTORY_SECTOR
    THEN [img |-> img, ok |-> FALSE]
    ELSE IF track = DIRECTORY_TRACK /\ sector = BAM_SECTOR
    THEN [img |-> img, ok |-> FALSE]
    ELSE LET byte == sector \div 8
             bit  == sector % 8
             val  == BamByte(img, track - 1, byte)
         IN  IF BitSet(val, bit)
             THEN [img |-> img, ok |-> FALSE]
             ELSE LET img1 == PutByte(img, BamTrackOff(track - 1),
                                      (BamFree(img, track - 1) + 1) % 256)
                  IN  [img |-> PutByte(img1, BamTrackOff(track - 1) + 1 + byte,
                                       WithBit(val, bit)),
                       ok |-> TRUE]

\* d64::allocateSector(track, sector).  The test for "already allocated" is
\* (val | (1 << bit)) == 0, which no byte satisfies.
allocateSector(tracks, oob, img, track, sector) ==
    IF track < 1 \/ track > tracks \/ sector < 0 \/ sector > SptAt(track, oob)
    THEN [img |-> img, ok |-> FALSE]
    ELSE LET byte == sector \div 8
             bit  == sector % 8
             val  == BamByte(img, track - 1, byte)
         IN  IF WithBit(val, bit) = 0
             THEN [img |-> img, ok |-> FALSE]
             ELSE LET img1 == PutByte(img, BamTrackOff(track - 1),
                                      (BamFree(img, track - 1) - 1) % 256)
                  IN  [img |-> PutByte(img1, BamTrackOff(track - 1) + 1 + byte,
                                       WithoutBit(val, bit)),
                       ok |-> TRUE]

\* ------------------------------------------------------------------------
\* Sector allocator
\* ------------------------------------------------------------------------
\* the scan of d64::findAndAllocateFreeOnTrack from position i: the first i
\* with a free sector (start_sector + i) % n, or n when there is none
RECURSIVE ScanFrom(_, _, _, _)
ScanFrom(img, track, start, i) ==
    LET n == SptAt(track - 1, 0)
    IN  IF i >= n THEN n
        ELSE IF BamBit(img, track - 1, (start + i) % n) THEN i
        ELSE ScanFrom(img, track, start, i + 1)

\* findAndAllocateFreeOnTrack with a scan that starts at sector 0
findAndAllocateFreeOnTrackFromZero(tracks, oob, img, last, track) ==
    IF BamFree(img, track - 1) < 1
    THEN [img |-> img, last |-> last, ok |-> FALSE, sector |-> -1]
    ELSE LET n == SptAt(track - 1, 0)
             Taken(s) == [img |-> allocateSector(tracks, oob, img, track, s).img,
                          last |-> [last EXCEPT ![track] = s],
                          ok |-> TRUE, sector |-> s]
             Scanned(i) ==
                 IF i >= n
                 THEN [img |-> img, last |-> last, ok |-> FALSE, sector |-> -1]
                 ELSE Taken(i)
         IN  Scanned(ScanFrom(img, track, 0, 0))

\* d64::findAndAllocateFreeOnTrack(track, sector): allocateSector's result is
\* not looked at
findAndAllocateFreeOnTrack(tracks, oob, img, last, track) ==
    IF BamFree(img, track - 1) < 1
    THEN [img |-> img, last |-> last, ok |-> FALSE, sector |-> -1]
    ELSE LET n     == SptAt(track - 1, 0)
             start == (last[track] + INTERLEAVE) % n
             Taken(s) == [img |-> allocateSector(tracks, oob, img, track, s).img,
                          last |-> [last EXCEPT ![track] = s],
                          ok |-> TRUE, sector |-> s]
             Scanned(i) ==
                 IF i >= n
                 THEN [img |-> img, last |-> last, ok |-> FALSE, sector |-> -1]
                 ELSE Taken((start + i) % n)
         IN  Scanned(ScanFrom(img, track, start, 0))

TRACK_SEARCH_ORDER ==
    <<18, 17, 19, 16, 20, 15, 21, 14, 22, 13, 23, 12, 24, 11, 25, 10, 26, 9,
      27, 8, 28, 7, 29, 6, 30, 5, 31, 4, 32, 3, 33, 2, 34, 1, 35>>

TRACK_40_SEARCH_ORDER ==
    <<18, 17, 19, 16, 20, 15, 21, 14, 22, 13, 23, 12, 24, 11, 25, 10, 26, 9,
      27, 8, 28, 7, 29, 6, 30, 5, 31, 4, 32, 3, 33, 2, 34, 1, 35, 36, 37, 38, 39, 40>>

\* the loop over the table: the n entries from order[k], the first half of
\* them and, when none of those had a free sector, the rest.  A track that
\* has none leaves the image and lastSectorUsed as they are
RECURSIVE SearchTracks(_, _, _, _, _, _, _)
SearchTracks(tracks, oob, img, last, order, k, n) ==
    IF n <= 0
    THEN [img |-> img, last |-> last, ok |-> FALSE, track |-> 0, sector |-> -1]
    ELSE IF n = 1
    THEN LET Tried(r) ==
                 IF r.ok
                 THEN [img |-> r.img, last |-> r.last, ok |-> TRUE,
                       track |-> order[k], sector |-> r.sector]
                 ELSE [img |-> img, last |-> last, ok |-> FALSE, track |-> 0,
                       sector |-> -1]
         IN  Tried(findAndAllocateFreeOnTrack(tracks, oob, img, last, order[k]))
    ELSE LET Rest(r) ==
                 IF r.ok THEN r
                 ELSE SearchTracks(tracks, oob, img, last, order, k + n \div 2,
                                   n - n \div 2)
         IN  Rest(CHOOSE r \in {SearchTracks(tracks, oob, img, last, order, k,
                                              n \div 2)} : TRUE)

\* the table d64::findAndAllocateFreeSector walks: it tests
\* disktype == TRACKS_35, an enum value against the number 35
SearchOrderOf(dt) ==
    IF dt = TRACKS_35 THEN TRACK_SEARCH_ORDER ELSE TRACK_40_SEARCH_ORDER

\* d64::findAndAllocateFreeSector(track, sector)
findAndAllocateFreeSector(dt, oob, img, last) ==
    SearchTracks(TracksOf(dt), oob, img, last, SearchOrderOf(dt), 1,
                 Len(SearchOrderOf(dt)))

\* ------------------------------------------------------------------------
\* Format
\* ------------------------------------------------------------------------
\* the first n bytes of a name: std::min(name.size(), n)
Take(name, n) == SubSeq(name, 1, IF Len(name) < n THEN Len(name) ELSE n)
PadTo(name, n) == [k \in 1..n |-> IF k <= Len(name) THEN name[k] ELSE A0_VALUE]
Zeros(n) == [k \in 1..n |-> 0]

\* d64::initializeBAMFields(name): every field of struct bam but bam_track
initializeBAMFields(img, name) ==
    LET i1 == PutBytes(img, BamBase, <<DIRECTORY_TRACK, DIRECTORY_SECTOR, DOS_VERSION, 0>>)
        i2 == PutBytes(i1, BamBase + 144, PadTo(Take(name, DISK_NAME_SZ), DISK_NAME_SZ))
        i3 == PutBytes(i2, BamBase + 160,
                       <<A0_VALUE, A0_VALUE, A0_VALUE, A0_VALUE, A0_VALUE, DOS_TYPE, DOS_VERSION>>)
    IN  PutBytes(i3, BamBase + 167, Zeros(UNUSED3_SZ + UNUSED4_SZ))

\* the last byte of a track's bitmap as initBAM builds it
LastBitmapByte(t) ==
    LET bits == SptAt(t, 0) % 8
    IN  <<0, 1, 3, 7, 15, 31, 63, 127>>[bits + 1]

RECURSIVE MarkAllFree(_, _, _)
MarkAllFree(img, tracks, t) ==
    IF t >= tracks THEN img
    ELSE IF t + 1 = tracks
    THEN PutBytes(img, BamTrackOff(t), <<SptAt(t, 0), 255, 255, LastBitmapByte(t)>>)
    ELSE \* the tracks from t to the middle, then the rest
         CHOOSE marked \in
             {MarkAllFree(i, tracks, (t + tracks) \div 2) :
                  i \in {MarkAllFree(img, (t + tracks) \div 2, t)}} : TRUE

\* a variant of initBAM that allocates the BAM sector only and leaves the
\* first directory sector free in the BAM
initBAMWithoutDirectory(tracks, oob, img, name) ==
    LET i1  == MarkAllFree(initializeBAMFields(img, name), tracks, 0)
        idx == calcOffset(tracks, DIRECTORY_TRACK, DIRECTORY_SECTOR)
        i2  == PutByte(PutBytes(i1, idx, ZeroSector), idx + 1, 255)
    IN  allocateSector(tracks, oob, i2, DIRECTORY_TRACK, BAM_SECTOR).img

\* d64::initBAM(name)
initBAM(tracks, oob, img, name) ==
    LET i1  == MarkAllFree(initializeBAMFields(img, name), tracks, 0)
        idx == calcOffset(tracks, DIRECTORY_TRACK, DIRECTORY_SECTOR)
        i2  == PutByte(PutBytes(i1, idx, ZeroSector), idx + 1, 255)
        i3  == allocateSector(tracks, oob, i2, DIRECTORY_TRACK, BAM_SECTOR).img
    IN  allocateSector(tracks, oob, i3, DIRECTORY_TRACK, DIRECTORY_SECTOR).img

\* d64::formatDisk(name): std::fill(data, 0x01), then initBAM
formatDisk(tracks, oob, name) == initBAM(tracks, oob, << >>, name)

\* ------------------------------------------------------------------------
\* Structure views (d64_types.h): offsets of the fields inside a sector
\* ------------------------------------------------------------------------
\* sizeof(directoryEntry): 30 bytes of fields and padd[2]
ENTRY_SIZE == 32
\* struct directorySector { trackSector next; directoryEntry fileEntry[8]; }:
\* 258 bytes, so the padd of fileEntry[7] lies in the two bytes after the sector
EntryOff(ptr, i) == ptr + 2 + i * ENTRY_SIZE
\* directoryEntry fields
E_START == 1
E_NAME == 3
E_SIDE == 19
E_RECLEN == 21
E_UNUSED == 22
E_REPLACE == 26
E_SIZE == 28
\* sideSector fields
S_BLOCK == 2
S_RECSIZE == 3
S_SIDES == 4
S_CHAIN == 16
\* sizeof(sector::data)
DATA_SIZE == 254

\* the bytes data[off .. off + n - 1]
Bytes(img, off, n) == [k \in 1..n |-> Byte(img, off + k - 1)]

\* write bytes[k] to data[off + k - 1] for every k whose address lies in the
\* image (0 <= address < size); a write may run over a sector's end into the
\* sector that follows it in the image
RECURSIVE PutSpan(_, _, _, _)
PutSpan(img, size, off, bytes) ==
    IF Len(bytes) = 0 THEN img
    ELSE IF off < 0
    THEN PutSpan(img, size, 0, SubSeq(bytes, 1 - off, Len(bytes)))
    ELSE IF off >= size THEN img
    ELSE LET room == SECTOR_SIZE - (off % SECTOR_SIZE)
             n    == IF Len(bytes) < room THEN Len(bytes) ELSE room
         IN  PutSpan(PutBytes(img, off, SubSeq(bytes, 1, n)), size, off + n,
                     SubSeq(bytes, n + 1, Len(bytes)))

\* some byte of data[off .. off + n - 1] lies outside the image buffer
OutOfImage(size, off, n) == n > 0 /\ (off < 0 \/ off + n > size)

\* c64FileType::closed of the entry at e
Closed(img, e) == Byte(img, e) >= 128
\* c64FileType::type
TypeOf(img, e) == Byte(img, e) % 16

\* the check of findEmptyDirectorySlot for "another allocated directory sector"
IsDirLink(tracks, t, s) ==
    t > 0 /\ t <= tracks /\ s >= 0 /\ s < SptAt(t - 1, 0)

\* ------------------------------------------------------------------------
\* Directory walks
\* ------------------------------------------------------------------------
\* what a call can come to: it returns ("ok"), it never returns because it
\* walks a chain that leads back into itself ("hung"), or it reads through a
\* pointer formed from the offset -1 ("fault")

\* the first non-closed entry of the directory sector at ptr, or -1
RECURSIVE FirstOpenEntry(_, _, _)
FirstOpenEntry(img, ptr, i) ==
    IF i >= FILES_PER_SECTOR THEN -1
    ELSE IF ~Closed(img, EntryOff(ptr, i)) THEN EntryOff(ptr, i)
    ELSE FirstOpenEntry(img, ptr, i + 1)

\* the offsets of the closed entries of the directory sector at ptr, in order
ClosedEntries(img, ptr) ==
    LET F[i \in 0..FILES_PER_SECTOR] ==
            IF i = FILES_PER_SECTOR THEN << >>
            ELSE (IF Closed(img, EntryOff(ptr, i)) THEN <<EntryOff(ptr, i)>> ELSE << >>)
                 \o F[i + 1]
    IN  F[0]

\* the walk of d64::directory(), findFile, compactDirectory and
\* verifyBAMIntegrity over the directory chain: the offsets of all closed
\* entries in chain order, and the sectors walked
RECURSIVE DirWalk(_, _, _, _, _, _)
DirWalk(tracks, img, t, s, seen, acc) ==
    IF t = 0 THEN [out |-> "ok", entries |-> acc.entries, sectors |-> acc.sectors]
    ELSE IF <<t, s>> \in seen
    THEN [out |-> "hung", entries |-> acc.entries, sectors |-> acc.sectors]
    ELSE LET ptr == calcOffset(tracks, t, s)
         IN  IF ptr < 0
             THEN [out |-> "fault", entries |-> acc.entries, sectors |-> acc.sectors]
             ELSE DirWalk(tracks, img, Byte(img, ptr), Byte(img, ptr + 1),
                          seen \cup {<<t, s>>},
                          [entries |-> acc.entries \o ClosedEntries(img, ptr),
                           sectors |-> Append(acc.sectors, <<t, s>>)])

DirChain(tracks, img) ==
    DirWalk(tracks, img, DIRECTORY_TRACK, DIRECTORY_SECTOR, {},
            [entries |-> << >>, sectors |-> << >>])

\* d64::directory(): the directoryEntry values (32 bytes each) of the closed
\* entries
directory(tracks, img) ==
    LET w == DirChain(tracks, img)
    IN  [out |-> w.out,
         list |-> [k \in 1..Len(w.entries) |-> Bytes(img, w.entries[k], ENTRY_SIZE)]]

\* the stored name up to the first $A0 (findFile's entryName)
RECURSIVE UpToPad(_, _)
UpToPad(name, k) ==
    IF k > Len(name) \/ name[k] = A0_VALUE THEN SubSeq(name, 1, k - 1)
    ELSE UpToPad(name, k + 1)

EntryName(img, e) == UpToPad(Bytes(img, e + E_NAME, FILE_NAME_SZ), 1)

RECURSIVE FirstNamed(_, _, _, _)
FirstNamed(img, entries, filename, k) ==
    IF k > Len(entries) THEN -1
    ELSE IF EntryName(img, entries[k]) = filename THEN entries[k]
    ELSE FirstNamed(img, entries, filename, k + 1)

\* findFile without the comparison of the names: the first closed entry
findFileAny(tracks, img, filename) ==
    LET w == DirChain(tracks, img)
        e == IF Len(w.entries) > 0 THEN w.entries[1] ELSE -1
    IN  [out |-> IF e >= 0 THEN "ok" ELSE w.out, entry |-> e]

\* the entries the walk of findFile sees before it returns or stops: a walk
\* that hangs or faults returns an entry met before that point
findFile(tracks, img, filename) ==
    LET w == DirChain(tracks, img)
        e == FirstNamed(img, w.entries, filename, 1)
    IN  [out |-> IF e >= 0 THEN "ok" ELSE w.out, entry |-> e]

\* ------------------------------------------------------------------------
\* findEmptyDirectorySlot
\* ------------------------------------------------------------------------
\* The fixed members of the object an operation runs on:
\*   cx.dt disktype, cx.tracks TRACKS, cx.size data.size(),
\*   cx.oob the value read at SECTORS_PER_TRACK[40],
\*   cx.rep the bit c64FileType(d64FileTypes) leaves unset (replace)
Cx(dt, oob, rep) ==
    [dt |-> dt, tracks |-> TracksOf(dt), size |-> DiskSizeOf(dt), oob |-> oob, rep |-> rep]

\* memset(dirSectorPtr, 0, SECTOR_SIZE); next.track = 0; next.sector = 0xFF
\* through the pointer &data[p]
ClearedDirSector == [k \in 1..SECTOR_SIZE |-> IF k = 2 THEN 255 ELSE 0]

\* d64::findEmptyDirectorySlot().  When the chain ends it allocates a sector
\* into the locals dir_track/dir_sector, clears the sector that the old
\* next pointer names (for the end marker that is &data[-1]), and goes on
\* with the allocated, uncleared and unlinked sector.
\* seen: the sectors looked at since the state last changed.
RECURSIVE SlotWalk(_, _, _, _, _, _, _)
SlotWalk(cx, img, last, ubw, t, s, seen) ==
    IF t = 0 THEN [img |-> img, last |-> last, ub |-> ubw, out |-> "ok", entry |-> -1]
    ELSE IF <<t, s>> \in seen
    THEN [img |-> img, last |-> last, ub |-> ubw, out |-> "hung", entry |-> -1]
    ELSE
    LET ptr == calcOffset(cx.tracks, t, s)
    IN  IF ptr < 0
        THEN [img |-> img, last |-> last, ub |-> ubw, out |-> "fault", entry |-> -1]
        ELSE
        LET e  == FirstOpenEntry(img, ptr, 0)
            nt == Byte(img, ptr)
            ns == Byte(img, ptr + 1)
        IN  IF e >= 0
            THEN [img |-> img, last |-> last, ub |-> ubw, out |-> "ok", entry |-> e]
            ELSE IF IsDirLink(cx.tracks, nt, ns)
            THEN SlotWalk(cx, img, last, ubw, nt, ns, seen \cup {<<t, s>>})
            ELSE
            LET p == calcOffset(cx.tracks, nt, ns)
                ub2 == ubw \/ OutOfImage(cx.size, p, SECTOR_SIZE)
                Cleared(r, img2) ==
                    SlotWalk(cx, img2, r.last, ub2, r.track, r.sector,
                             IF img2 = img /\ r.last = last
                             THEN seen \cup {<<t, s>>} ELSE {})
                Allocated(r) ==
                    IF ~r.ok
                    THEN [img |-> img, last |-> last, ub |-> ubw, out |-> "ok",
                          entry |-> -1]
                    ELSE Cleared(r, PutSpan(r.img, cx.size, p, ClearedDirSector))
            IN  Allocated(findAndAllocateFreeSector(cx.dt, cx.oob, img, last))

findEmptyDirectorySlot(cx, img, last) ==
    SlotWalk(cx, img, last, FALSE, DIRECTORY_TRACK, DIRECTORY_SECTOR, {})

\* ------------------------------------------------------------------------
\* Sequential files
\* ------------------------------------------------------------------------
\* the 254 data bytes of a sector: fileData from offset on, then zeros
Payload(fileData, offset) ==
    [b \in 1..DATA_SIZE |->
        IF offset + b <= Len(fileData) THEN fileData[offset + b] ELSE 0]

\* one pass of the write loop of d64::addFile: the sector at (track, sector)
\* receives its link and up to 254 bytes of the data at offset
WriteSlot(cx, st, fileData) ==
    LET more == Len(fileData) - st.offset > SECTOR_SIZE - 2
        ptr  == calcOffset(cx.tracks, st.track, st.sector)
        Linked(r) ==
            IF ~r.ok
            THEN [st EXCEPT !.img = r.img, !.last = r.last, !.ok = FALSE]
            ELSE [img |-> PutSpan(r.img, cx.size, ptr,
                                  <<r.track % 256, r.sector % 256>>
                                  \o Payload(fileData, st.offset)),
                  last |-> r.last, ok |-> TRUE,
                  allocated |-> IF more THEN st.allocated + 1 ELSE st.allocated,
                  offset |-> st.offset + DATA_SIZE,
                  track |-> r.track, sector |-> r.sector]
    IN  Linked(IF more THEN findAndAllocateFreeSector(cx.dt, cx.oob, st.img, st.last)
               ELSE [img |-> st.img, last |-> st.last, ok |-> TRUE, track |-> 0,
                     sector |-> Len(fileData) - st.offset])

\* n passes of the write loop from st, stopping at the first failed allocation
RECURSIVE WriteSpan(_, _, _, _)
WriteSpan(cx, st, fileData, n) ==
    IF ~st.ok \/ n = 0 THEN st
    ELSE IF n = 1 THEN WriteSlot(cx, st, fileData)
    ELSE CHOOSE w \in {WriteSpan(cx, h, fileData, n - n \div 2) :
                       h \in {WriteSpan(cx, st, fileData, n \div 2)}} : TRUE

\* the write loop of d64::addFile: while (offset < fileData.size())
WriteChain(cx, img, last, fileData, offset, next_track, next_sector, allocated) ==
    LET left == IF offset >= Len(fileData) THEN 0 ELSE Len(fileData) - offset
        w == WriteSpan(cx, [img |-> img, last |-> last, ok |-> TRUE,
                            allocated |-> allocated, offset |-> offset,
                            track |-> next_track, sector |-> next_sector],
                       fileData, (left + DATA_SIZE - 1) \div DATA_SIZE)
    IN  [img |-> w.img, last |-> w.last, ok |-> w.ok, allocated |-> w.allocated]

\* c64FileType(d64FileTypes t) as a byte: closed = 1, locked = 0, unused = 0,
\* type = t, and replace never set by the constructor
FileTypeByte(cx, type) == 128 + 32 * cx.rep + type

\* the directory entry d64::addFile writes (30 bytes; padd is left alone)
SeqEntry(cx, filename, type, start_track, start_sector, allocated) ==
    <<FileTypeByte(cx, type), start_track, start_sector>>
    \o PadTo(Take(filename, FILE_NAME_SZ), FILE_NAME_SZ)
    \o <<0, 0, 0>> \o Zeros(4)
    \o <<start_track, start_sector>>
    \o <<allocated % 256, (allocated \div 256) % 256>>

\* d64::addFile(filename, type, fileData)
addFile(cx, img, last, filename, type, fileData) ==
    LET \* a: the start sector, w: the chain written, f: the directory slot
        Slotted(a, w, f) ==
            IF f.out # "ok" \/ f.entry < 0
            THEN [img |-> f.img, last |-> f.last, ub |-> f.ub, out |-> f.out,
                  ok |-> FALSE]
            ELSE [img |-> PutSpan(f.img, cx.size, f.entry,
                                  SeqEntry(cx, filename, type, a.track, a.sector,
                                           w.allocated)),
                  last |-> f.last, ub |-> f.ub, out |-> "ok", ok |-> TRUE]
        Written(a, w) ==
            IF ~w.ok
            THEN [img |-> w.img, last |-> w.last, ub |-> FALSE, out |-> "ok", ok |-> FALSE]
            ELSE Slotted(a, w, findEmptyDirectorySlot(cx, w.img, w.last))
        Started(a) ==
            IF ~a.ok
            THEN [img |-> img, last |-> last, ub |-> FALSE, out |-> "ok", ok |-> FALSE]
            ELSE Written(a, WriteChain(cx, a.img, a.last, fileData, 0, a.track, a.sector, 1))
    IN  Started(findAndAllocateFreeSector(cx.dt, cx.oob, img, last))

\* d64::readPRGFile(fileEntry): the bytes along the chain from start
RECURSIVE ReadChain(_, _, _, _, _, _)
ReadChain(cx, img, track, sector, seen, acc) ==
    IF track = 0 THEN [out |-> "ok", ok |-> TRUE, value |-> acc]
    ELSE IF <<track, sector>> \in seen
    THEN [out |-> "hung", ok |-> FALSE, value |-> << >>]
    ELSE
    LET ptr == calcOffset(cx.tracks, track, sector)
        nt  == Byte(img, ptr)
        ns  == Byte(img, ptr + 1)
        n   == IF nt # 0 THEN DATA_SIZE ELSE ns
    IN  IF ptr < 0 THEN [out |-> "fault", ok |-> FALSE, value |-> << >>]
        ELSE ReadChain(cx, img, nt, ns, seen \cup {<<track, sector>>},
                       acc \o Bytes(img, ptr + 2, n))

readPRGFile(cx, img, e) ==
    ReadChain(cx, img, Byte(img, e + E_START), Byte(img, e + E_START + 1), {}, << >>)

\* d64::removeFile(filename): the loop freeing the chain
RECURSIVE FreeChain(_, _, _, _, _)
FreeChain(cx, img, track, sector, seen) ==
    IF track = 0 THEN [img |-> img, out |-> "ok"]
    ELSE IF <<track, sector>> \in seen THEN [img |-> img, out |-> "hung"]
    ELSE
    LET ptr == calcOffset(cx.tracks, track, sector)
    IN  IF ptr < 0 THEN [img |-> img, out |-> "fault"]
        ELSE FreeChain(cx, freeSector(cx.tracks, cx.oob, img, track, sector).img,
                       Byte(img, ptr), Byte(img, ptr + 1), seen \cup {<<track, sector>>})

\* d64::removeFile(filename); memset(entry, 0, sizeof(Directory_Entry)) at the end
removeFile(cx, img, filename) ==
    LET \* f: what findFile returned, c: the chain freed
        Freed(f, c) ==
            IF c.out # "ok" THEN [img |-> c.img, ub |-> FALSE, out |-> c.out, ok |-> FALSE]
            ELSE [img |-> PutSpan(c.img, cx.size, f.entry, Zeros(ENTRY_SIZE)),
                  ub |-> OutOfImage(cx.size, f.entry, ENTRY_SIZE),
                  out |-> "ok", ok |-> TRUE]
        Found(f) ==
            IF f.out # "ok" THEN [img |-> img, ub |-> FALSE, out |-> f.out, ok |-> FALSE]
            ELSE IF f.entry < 0 THEN [img |-> img, ub |-> FALSE, out |-> "ok", ok |-> FALSE]
            ELSE Freed(f, FreeChain(cx, img, Byte(img, f.entry + E_START),
                                    Byte(img, f.entry + E_START + 1), {}))
    IN  Found(findFile(cx.tracks, img, filename))

\* ------------------------------------------------------------------------
\* REL files
\* ------------------------------------------------------------------------
\* the closed bit of the entry at e cleared: file_type.closed = 0
Unclose(cx, img, e) == PutSpan(img, cx.size, e, <<Byte(img, e) % 128>>)

\* one pass of the for loop over a side sector's chain in d64::addRelFile:
\* slot i.  st: [img, last, file_pos, allocated, done, ub]
RelSlot(cx, st, e, side, fileData, i) ==
    IF ~(Byte(st.img, side + S_CHAIN + 2 * i) = 0
         /\ Byte(st.img, side + S_CHAIN + 2 * i + 1) = 0)
    THEN [st |-> st, ok |-> TRUE]
    ELSE
    LET done == st.file_pos + DATA_SIZE > Len(fileData)
        pos  == IF done THEN Len(fileData) ELSE st.file_pos + DATA_SIZE
        n    == st.allocated + 1
        \* r: the sector allocated, i1: chain[i] written, prev: the sector
        \* chain[i - 1] names, i3: the data sector written
        \* if (done): file_size; the sibling list loop runs side_count = 0 times
        Written(r, prev, i3) ==
            [st |-> [img |-> IF done
                             THEN PutSpan(i3, cx.size, e + E_SIZE,
                                          <<n % 256, (n \div 256) % 256>>)
                             ELSE i3,
                     last |-> r.last, file_pos |-> pos, allocated |-> n, done |-> done,
                     ub |-> st.ub \/ (i > 0 /\ OutOfImage(cx.size, prev, 2))],
             ok |-> TRUE]
        Linked(r, i1, prev) ==
            Written(r, prev,
                    PutSpan(IF i > 0 THEN PutSpan(i1, cx.size, prev, <<r.track, r.sector>>)
                            ELSE i1,
                            cx.size, calcOffset(cx.tracks, r.track, r.sector),
                            <<0, 0>> \o Payload(fileData, st.file_pos)))
        Slotted(r, i1) ==
            Linked(r, i1, calcOffset(cx.tracks, Byte(i1, side + S_CHAIN + 2 * (i - 1)),
                                     Byte(i1, side + S_CHAIN + 2 * (i - 1) + 1)))
        Allocated(r) ==
            IF ~r.ok
            THEN [st |-> [st EXCEPT !.img = Unclose(cx, st.img, e)], ok |-> FALSE]
            ELSE Slotted(r, PutSpan(r.img, cx.size, side + S_CHAIN + 2 * i,
                                    <<r.track, r.sector>>))
    IN  Allocated(findAndAllocateFreeSector(cx.dt, cx.oob, st.img, st.last))

\* the for loop over one side sector's chain in d64::addRelFile: the n slots
\* from slot i, the first half of them and then the rest; the loop ends at
\* done, at the end of the chain and where the allocator fails
RECURSIVE RelChain(_, _, _, _, _, _, _)
RelChain(cx, st, e, side, fileData, i, n) ==
    IF st.done \/ i >= SIDE_SECTOR_CHAIN_SZ THEN [st |-> st, ok |-> TRUE]
    ELSE IF n <= 1 THEN RelSlot(cx, st, e, side, fileData, i)
    ELSE
    LET half == n \div 2
        Rest(c) ==
            IF ~c.ok THEN c
            ELSE RelChain(cx, c.st, e, side, fileData, i + half, n - half)
    IN  Rest(CHOOSE c \in {RelChain(cx, st, e, side, fileData, i, half)} : TRUE)

\* the main loop of d64::addRelFile: side_count stays 0, so the loop runs
\* until done.  first: the first side sector; block: the block number
RECURSIVE RelSides(_, _, _, _, _, _, _, _, _)
RelSides(cx, st, e, first, sideTrack, sideSector, record_size, fileData, block) ==
    LET side == calcOffset(cx.tracks, sideTrack, sideSector)
        i1   == PutSpan(st.img, cx.size, side, ZeroSector)
        i2   == PutSpan(i1, cx.size, first + S_SIDES, <<sideTrack>>)
        i3   == PutSpan(i2, cx.size, side, <<0, 0, block % 256, record_size>>)
        \* c: the chain filled, r: the next side sector
        NextSide(c, r) ==
            IF ~r.ok
            THEN [st |-> [c.st EXCEPT !.img = Unclose(cx, c.st.img, e)], ok |-> FALSE]
            ELSE RelSides(cx,
                          [c.st EXCEPT !.img = PutSpan(r.img, cx.size, side,
                                                       <<r.track, r.sector>>),
                                       !.last = r.last,
                                       !.allocated = c.st.allocated + 1],
                          e, first, r.track, r.sector, record_size, fileData, block + 1)
        Chained(c) ==
            IF ~c.ok THEN c
            ELSE IF c.st.done THEN c
            ELSE NextSide(c, findAndAllocateFreeSector(cx.dt, cx.oob, c.st.img, c.st.last))
        \* the passes left until done, at most one chain of them
        left == (Len(fileData) - st.file_pos) \div DATA_SIZE + 1
        slots == IF left < SIDE_SECTOR_CHAIN_SZ THEN left ELSE SIDE_SECTOR_CHAIN_SZ
    IN  Chained(CHOOSE c \in {RelChain(cx, [st EXCEPT !.img = i3], e, side, fileData,
                                        0, slots)} : TRUE)

\* d64::addRelFile(filename, type, record_size, fileData)
addRelFile(cx, img, last, filename, record_size, fileData) ==
    LET \* f: the directory slot, e: its entry, ub1: the entry lies outside the
        \* image, i4: the entry filled in, a: the first side sector, w: the file written
        Written(w) ==
            [img |-> w.st.img, last |-> w.st.last, ub |-> w.st.ub, out |-> "ok",
             ok |-> w.ok]
        Started(f, e, ub1, i4, a) ==
            IF ~a.ok
            THEN [img |-> Unclose(cx, i4, e), last |-> f.last, ub |-> ub1,
                  out |-> "ok", ok |-> FALSE]
            ELSE Written(RelSides(cx,
                                  [img |-> PutSpan(PutSpan(a.img, cx.size, e + E_SIDE,
                                                           <<a.track, a.sector>>),
                                                   cx.size, e + E_START,
                                                   <<a.track, a.sector>>),
                                   last |-> a.last, file_pos |-> 0,
                                   allocated |-> 1, done |-> FALSE, ub |-> ub1],
                                  e, calcOffset(cx.tracks, a.track, a.sector),
                                  a.track, a.sector, record_size, fileData, 0))
        Entered(f, e, ub1, i4) ==
            Started(f, e, ub1, i4, findAndAllocateFreeSector(cx.dt, cx.oob, i4, f.last))
        Slotted(f, e) ==
            Entered(f, e, f.ub \/ OutOfImage(cx.size, e, ENTRY_SIZE),
                    PutSpan(PutSpan(PutSpan(PutSpan(f.img, cx.size, e, Zeros(ENTRY_SIZE)),
                                            cx.size, e, <<FileTypeByte(cx, REL)>>),
                                    cx.size, e + E_NAME,
                                    PadTo(Take(filename, FILE_NAME_SZ), FILE_NAME_SZ)),
                            cx.size, e + E_RECLEN, <<record_size>>))
        Found(f) ==
            IF f.out # "ok" \/ f.entry < 0
            THEN [img |-> f.img, last |-> f.last, ub |-> f.ub, out |-> f.out, ok |-> FALSE]
            ELSE Slotted(f, f.entry)
    IN  Found(findEmptyDirectorySlot(cx, img, last))

\* d64::parseSideSectors(sideTrack, sideSector): the data sectors named by
\* the chains of the side sectors, up to the first entry with track 0 in each
RECURSIVE ChainEntries(_, _, _)
ChainEntries(img, side, i) ==
    IF i >= SIDE_SECTOR_CHAIN_SZ \/ Byte(img, side + S_CHAIN + 2 * i) = 0 THEN << >>
    ELSE <<<<Byte(img, side + S_CHAIN + 2 * i), Byte(img, side + S_CHAIN + 2 * i + 1)>>>>
         \o ChainEntries(img, side, i + 1)

RECURSIVE ParseSides(_, _, _, _, _, _)
ParseSides(cx, img, sideTrack, sideSector, seen, acc) ==
    IF sideTrack = 0 THEN [out |-> "ok", map |-> acc]
    ELSE IF <<sideTrack, sideSector>> \in seen THEN [out |-> "hung", map |-> acc]
    ELSE
    LET side == calcOffset(cx.tracks, sideTrack, sideSector)
    IN  IF side < 0 THEN [out |-> "fault", map |-> acc]
        ELSE ParseSides(cx, img, Byte(img, side), Byte(img, side + 1),
                        seen \cup {<<sideTrack, sideSector>>},
                        acc \o ChainEntries(img, side, 0))

parseSideSectors(cx, img, sideTrack, sideSector) ==
    ParseSides(cx, img, sideTrack, sideSector, {}, << >>)

\* the records of d64::readRELFile: recordLength bytes of each mapped sector
RECURSIVE ReadRecords(_, _, _, _, _)
ReadRecords(cx, img, map, recordLength, k) ==
    IF k > Len(map) THEN [out |-> "ok", value |-> << >>]
    ELSE
    LET ptr  == calcOffset(cx.tracks, map[k][1], map[k][2])
        rest == ReadRecords(cx, img, map, recordLength, k + 1)
    IN  IF ptr < 0 THEN [out |-> "fault", value |-> << >>]
        ELSE IF rest.out # "ok" THEN rest
        ELSE [out |-> "ok", value |-> Bytes(img, ptr + 2, recordLength) \o rest.value]

\* d64::readRELFile(fileEntry)
readRELFile(cx, img, e) ==
    IF TypeOf(img, e) # REL THEN [out |-> "ok", ok |-> FALSE, value |-> << >>]
    ELSE IF Byte(img, e + E_RECLEN) = 0 THEN [out |-> "ok", ok |-> FALSE, value |-> << >>]
    ELSE
    LET Read(r) == [out |-> r.out, ok |-> r.out = "ok", value |-> r.value]
        Mapped(m) ==
            IF m.out # "ok" THEN [out |-> m.out, ok |-> FALSE, value |-> << >>]
            ELSE Read(ReadRecords(cx, img, m.map, Byte(img, e + E_RECLEN), 1))
    IN  Mapped(parseSideSectors(cx, img, Byte(img, e + E_SIDE), Byte(img, e + E_SIDE + 1)))

\* d64::readFile(filename)
readFile(cx, img, filename) ==
    LET Found(f) ==
            IF f.out # "ok" THEN [out |-> f.out, ok |-> FALSE, value |-> << >>]
            ELSE IF f.entry < 0 THEN [out |-> "ok", ok |-> FALSE, value |-> << >>]
            ELSE IF TypeOf(img, f.entry) = REL THEN readRELFile(cx, img, f.entry)
            ELSE readPRGFile(cx, img, f.entry)
    IN  Found(findFile(cx.tracks, img, filename))

\* ------------------------------------------------------------------------
\* verifyBAMIntegrity
\* ------------------------------------------------------------------------
\* std::array<std::array<bool, 21>, TRACKS_40> sectorUsage, as the set of the
\* flat indexes that are true: sectorUsage[t][s] is element t * 21 + s
USAGE_ROW == 21
Flat(t, s) == t * USAGE_ROW + s
InUsage(k) == k >= 0 /\ k < TRACKS_40 * USAGE_ROW

\* readByte(track, sector, byteoffset): -1 for std::nullopt
readByte(cx, img, track, sector, byteoffset) ==
    LET offset == calcOffset(cx.tracks, track, sector) + byteoffset
    IN  IF offset >= 0 /\ offset < cx.size THEN Byte(img, offset) ELSE -1

\* the inner while loop of step 2: the chain of one entry
RECURSIVE MarkChain(_, _, _, _, _, _)
MarkChain(cx, img, track, sector, seen, usage) ==
    IF track = 0 THEN [out |-> "ok", usage |-> usage]
    ELSE IF <<track, sector>> \in seen THEN [out |-> "hung", usage |-> usage]
    ELSE
    LET next_track  == readByte(cx, img, track, sector, TRACK_SECTOR)
        next_sector == readByte(cx, img, track, sector, SECTOR_SECTOR)
    IN  MarkChain(cx, img,
                  IF next_track < 0 THEN 0 ELSE next_track,
                  IF next_sector < 0 THEN 255 ELSE next_sector,
                  seen \cup {<<track, sector>>},
                  usage \cup {Flat(track - 1, sector)})

RECURSIVE MarkEntries(_, _, _, _, _)
MarkEntries(cx, img, entries, k, usage) ==
    IF k > Len(entries) THEN [out |-> "ok", usage |-> usage]
    ELSE
    LET Chained(m) ==
            IF m.out # "ok" THEN m
            ELSE MarkEntries(cx, img, entries, k + 1, m.usage)
    IN  Chained(MarkChain(cx, img, Byte(img, entries[k] + E_START),
                          Byte(img, entries[k] + E_START + 1), {}, usage))

\* steps 1 and 2: the BAM sector, the directory sectors and the chains of the
\* closed entries
SectorUsage(cx, img) ==
    LET \* w: the directory chain walked, m: the chains of its entries marked
        Marked(w, m) ==
            IF m.out # "ok" THEN m
            ELSE [out |-> w.out, usage |-> m.usage]
        Walked(w) ==
            Marked(w, MarkEntries(cx, img, w.entries, 1,
                                  {Flat(DIRECTORY_TRACK - 1, BAM_SECTOR)}
                                  \cup {Flat(w.sectors[k][1] - 1, w.sectors[k][2]) :
                                            k \in 1..Len(w.sectors)}))
    IN  Walked(DirChain(cx.tracks, img))

\* a variant of step 3 that compares the free counts only and never looks
\* at the bitmap
VerifyTrackCountsOnly(img, usage, t, fix) ==
    LET n    == SptAt(t, 0)
        correctFreeCount == Cardinality({s \in 0..(n - 1) : Flat(t, s) \notin usage})
        free == BamFree(img, t)
    IN  [errors |-> IF free # correctFreeCount THEN 1 ELSE 0,
         entry  |-> <<IF fix THEN correctFreeCount ELSE free,
                      BamByte(img, t, 0), BamByte(img, t, 1), BamByte(img, t, 2)>>]

\* step 3 on one track (track - 1 = t): the log lines written and the BAM
\* entry after the call
VerifyTrack(img, usage, t, fix) ==
    LET n       == SptAt(t, 0)
        used(s) == Flat(t, s) \in usage
        wrong   == {s \in 0..(n - 1) : used(s) = BamBit(img, t, s)}
        correctFreeCount == Cardinality({s \in 0..(n - 1) : ~used(s)})
        free    == BamFree(img, t)
        fixed(b) ==
            LET old == BamByte(img, t, b)
                F[k \in 0..8] ==
                    IF k = 8 THEN 0
                    ELSE F[k + 1] +
                         (IF 8 * b + k < n
                          THEN (IF used(8 * b + k) THEN 0 ELSE Pow2(k))
                          ELSE (IF BitSet(old, k) THEN Pow2(k) ELSE 0))
            IN  F[0]
    IN  [errors |-> Cardinality(wrong) + (IF free # correctFreeCount THEN 1 ELSE 0),
         entry  |-> IF fix THEN <<correctFreeCount, fixed(0), fixed(1), fixed(2)>>
                    ELSE <<free, BamByte(img, t, 0), BamByte(img, t, 1), BamByte(img, t, 2)>>]

\* the BAM entries of the tracks in fixed written back
\* (the tracks from t up to tracks - 1: those up to the middle, then the rest)
RECURSIVE WriteEntries(_, _, _, _, _)
WriteEntries(img, res, fixed, tracks, t) ==
    IF t >= tracks THEN img
    ELSE IF t + 1 = tracks
    THEN (IF t \in fixed THEN PutBytes(img, BamTrackOff(t), res[t].entry) ELSE img)
    ELSE CHOOSE written \in
             {WriteEntries(i, res, fixed, tracks, (t + tracks) \div 2) :
                  i \in {WriteEntries(img, res, fixed, (t + tracks) \div 2, t)}} : TRUE

\* the log lines of the tracks from t up to tracks - 1
RECURSIVE SumErrors(_, _, _)
SumErrors(res, tracks, t) ==
    IF t >= tracks THEN 0
    ELSE IF t + 1 = tracks THEN res[t].errors
    ELSE SumErrors(res, (t + tracks) \div 2, t) + SumErrors(res, tracks, (t + tracks) \div 2)

\* step 3 over all tracks.  A track's pass reads and writes that track's BAM
\* entry only, so the passes are taken side by side: the number of log
\* lines, and the image with the entries of the tracks that were fixed
VerifyTracks(cx, img, usage, fix) ==
    LET Passed(res) ==
            LET bad == {t \in 0..(cx.tracks - 1) : res[t].errors > 0}
            IN  [img    |-> IF fix THEN WriteEntries(img, res, bad, cx.tracks, 0) ELSE img,
                 errors |-> SumErrors(res, cx.tracks, 0)]
    IN  Passed([t \in 0..(cx.tracks - 1) |-> VerifyTrack(img, usage, t, fix)])

\* a variant of verifyBAMIntegrity that reports a repaired disk as valid:
\* return fix || !errorsFound
verifyBAMIntegrityRepairedIsValid(cx, img, fix) ==
    LET Compared(u, v) ==
            [img |-> v.img, out |-> "ok", ok |-> fix \/ v.errors = 0, errors |-> v.errors,
             ub |-> \E k \in u.usage : ~InUsage(k)]
        Marked(u) ==
            IF u.out # "ok"
            THEN [img |-> img, out |-> u.out, ok |-> FALSE, errors |-> 0, ub |-> FALSE]
            ELSE Compared(u, VerifyTracks(cx, img, u.usage, fix))
    IN  Marked(SectorUsage(cx, img))

\* d64::verifyBAMIntegrity(fix, logFile): what it returns, the number of
\* ERROR and WARNING lines it logs, and the image after it
verifyBAMIntegrity(cx, img, fix) ==
    LET \* u: steps 1 and 2, v: step 3
        Compared(u, v) ==
            [img |-> v.img, out |-> "ok", ok |-> v.errors = 0, errors |-> v.errors,
             ub |-> \E k \in u.usage : ~InUsage(k)]
        Marked(u) ==
            IF u.out # "ok"
            THEN [img |-> img, out |-> u.out, ok |-> FALSE, errors |-> 0, ub |-> FALSE]
            ELSE Compared(u, VerifyTracks(cx, img, u.usage, fix))
    IN  Marked(SectorUsage(cx, img))

\* d64::getFreeSectorCount(): a uint16_t sum over every track but 18
RECURSIVE SumFree(_, _, _)
SumFree(img, tracks, t) ==
    IF t > tracks THEN 0
    ELSE IF t = tracks THEN (IF t = DIRECTORY_TRACK THEN 0 ELSE BamFree(img, t - 1))
    ELSE \* the tracks from t to the middle, then the rest
         SumFree(img, (t + tracks) \div 2, t) + SumFree(img, tracks, (t + tracks) \div 2 + 1)

getFreeSectorCount(tracks, img) == SumFree(img, tracks, 1) % 65536

\* ------------------------------------------------------------------------
\* Initial state: d64::d64() and d64::d64(diskType), that is init_disk()
\* ------------------------------------------------------------------------
\* values the read one past the end of SECTORS_PER_TRACK may yield: one
\* below every sector number above 0, one above every sector number
OobValues == {0, 255}

\* what the last call returned
Ret(op, ok) ==
    [op |-> op, ok |-> ok, track |-> 0, sector |-> 0, value |-> << >>,
     errors |-> 0, name |-> << >>, fix |-> FALSE, file |-> << >>]

NoFlip == [phase |-> "none", track |-> 0, sector |-> 0, wasFree |-> FALSE, bam |-> << >>]

Init ==
    /\ disktype \in {thirty_five_track, forty_track}
    /\ sptOob \in (IF disktype = forty_track THEN OobValues ELSE {0})
    /\ replaceBit \in {0, 1}
    /\ data = formatDisk(TracksOf(disktype), sptOob, NEW_DISK)
    /\ lastSectorUsed = [t \in 1..TRACKS_40 |-> 0]
    /\ status = "run"
    /\ ub = FALSE
    /\ ret = Ret("init", TRUE)
    /\ prevData = data
    /\ allocations = << >>
    /\ files = << >>
    /\ flip = NoFlip
    /\ counts = [calls |-> 0, adds |-> 0, removes |-> 0]

\* the object the next call runs on
This == Cx(disktype, sptOob, replaceBit)

\* how a call ends: it returns, it never returns ("hung"), or it leaves the
\* image ("fault"); after undefined behaviour the process may also be gone
Outcome(out, undefined) ==
    IF out # "ok" THEN {out}
    ELSE IF undefined THEN {"run", "crashed"}
    ELSE {"run"}

\* ------------------------------------------------------------------------
\* The allocation test (unittests: allocation_helper): one call of
\* findAndAllocateFreeSector, the returned address appended to the list
\* ------------------------------------------------------------------------
AllocStep ==
    /\ status = "run"
    /\ Len(allocations) < MaxAllocs
    /\ \E r \in {findAndAllocateFreeSector(disktype, sptOob, data, lastSectorUsed)} :
           /\ data' = r.img
           /\ lastSectorUsed' = r.last
           /\ ret' = [Ret("findAndAllocateFreeSector", r.ok) EXCEPT
                          !.track = r.track, !.sector = r.sector]
           /\ allocations' = IF r.ok THEN Append(allocations, <<r.track, r.sector>>)
                             ELSE allocations
    /\ prevData' = data
    /\ counts' = [counts EXCEPT !.calls = @ + 1]
    /\ UNCHANGED <<disktype, sptOob, replaceBit, status, ub, files, flip>>

NextAlloc == AllocStep

SpecAlloc == Init /\ [][NextAlloc]_vars

\* ------------------------------------------------------------------------
\* Calls of the public interface
\* ------------------------------------------------------------------------
\* file names "FA", "FB", ... and file contents
Name(k) == <<70, 64 + k>>
Content(len, seed) == [i \in 1..len |-> ((7 * i + seed) % 250) + 2]
LiveNames == {files[i].name : i \in 1..Len(files)}
FileNamed(name) == CHOOSE i \in 1..Len(files) : files[i].name = name
WithoutFile(name) == SelectSeq(files, LAMBDA f : f.name # name)
BamSector(img) == SectorBytes(img, BamBase \div SECTOR_SIZE)

\* allocateSector(track, sector)
AllocateSectorStep(track, sector) ==
    /\ status = "run"
    /\ \E r \in {allocateSector(TRACKS, sptOob, data, track, sector)} :
           /\ data' = r.img
           /\ ret' = [Ret("allocateSector", r.ok) EXCEPT !.track = track, !.sector = sector]
    /\ prevData' = data
    /\ counts' = [counts EXCEPT !.calls = @ + 1]
    /\ UNCHANGED <<disktype, sptOob, replaceBit, lastSectorUsed, status, ub,
                   allocations, files, flip>>

\* freeSector(track, sector)
FreeSectorStep(track, sector) ==
    /\ status = "run"
    /\ \E r \in {freeSector(TRACKS, sptOob, data, track, sector)} :
           /\ data' = r.img
           /\ ret' = [Ret("freeSector", r.ok) EXCEPT !.track = track, !.sector = sector]
    /\ prevData' = data
    /\ counts' = [counts EXCEPT !.calls = @ + 1]
    /\ UNCHANGED <<disktype, sptOob, replaceBit, lastSectorUsed, status, ub,
                   allocations, files, flip>>

\* addFile(filename, type, fileData)
AddFileStep(filename, type, fileData) ==
    /\ status = "run"
    /\ filename \notin LiveNames
    /\ \E r \in {addFile(This, data, lastSectorUsed, filename, type, fileData)} :
           /\ data' = r.img
           /\ lastSectorUsed' = r.last
           /\ ub' = (ub \/ r.ub)
           /\ status' \in Outcome(r.out, r.ub)
           /\ ret' = [Ret("addFile", r.ok) EXCEPT !.name = filename, !.value = <<type>>]
           /\ files' = IF r.ok
                       THEN Append(files, [name |-> filename, kind |-> "seq",
                                           bytes |-> fileData, bam |-> BamSector(data),
                                           bamAfter |-> BamSector(r.img)])
                       ELSE files
           /\ counts' = [counts EXCEPT !.calls = @ + 1,
                                       !.adds = IF r.ok THEN @ + 1 ELSE @]
    /\ prevData' = data
    /\ UNCHANGED <<disktype, sptOob, replaceBit, allocations, flip>>

\* addRelFile(filename, REL, record_size, fileData)
AddRelFileStep(filename, record_size, fileData) ==
    /\ status = "run"
    /\ filename \notin LiveNames
    /\ \E r \in {addRelFile(This, data, lastSectorUsed, filename, record_size, fileData)} :
           /\ data' = r.img
           /\ lastSectorUsed' = r.last
           /\ ub' = (ub \/ r.ub)
           /\ status' \in Outcome(r.out, r.ub)
           /\ ret' = [Ret("addRelFile", r.ok) EXCEPT !.name = filename,
                                                     !.value = <<record_size>>]
           /\ files' = IF r.ok
                       THEN Append(files, [name |-> filename, kind |-> "rel",
                                           bytes |-> fileData, bam |-> BamSector(data),
                                           bamAfter |-> BamSector(r.img)])
                       ELSE files
           /\ counts' = [counts EXCEPT !.calls = @ + 1,
                                       !.adds = IF r.ok THEN @ + 1 ELSE @]
    /\ prevData' = data
    /\ UNCHANGED <<disktype, sptOob, replaceBit, allocations, flip>>

\* removeFile(filename)
RemoveFileStep(filename) ==
    /\ status = "run"
    /\ \E r \in {removeFile(This, data, filename)} :
           /\ data' = r.img
           /\ ub' = (ub \/ r.ub)
           /\ status' \in Outcome(r.out, r.ub)
           /\ ret' = [Ret("removeFile", r.ok) EXCEPT
                          !.name = filename,
                          !.file = IF filename \in LiveNames THEN files[FileNamed(filename)]
                                   ELSE << >>]
           /\ files' = IF r.ok THEN WithoutFile(filename) ELSE files
           /\ counts' = [counts EXCEPT !.calls = @ + 1,
                                       !.removes = IF r.ok THEN @ + 1 ELSE @]
    /\ prevData' = data
    /\ UNCHANGED <<disktype, sptOob, replaceBit, lastSectorUsed, allocations, flip>>

\* readFile(filename)
ReadFileStep(filename) ==
    /\ status = "run"
    /\ \E r \in {readFile(This, data, filename)} :
           /\ status' \in Outcome(r.out, FALSE)
           /\ ret' = [Ret("readFile", r.ok) EXCEPT !.name = filename, !.value = r.value]
    /\ prevData' = data
    /\ counts' = [counts EXCEPT !.calls = @ + 1]
    /\ UNCHANGED <<disktype, sptOob, replaceBit, data, lastSectorUsed, ub,
                   allocations, files, flip>>

\* verifyBAMIntegrity(fix, "")
VerifyStep(fix) ==
    /\ status = "run"
    /\ \E r \in {verifyBAMIntegrity(This, data, fix)} :
           /\ data' = r.img
           /\ ub' = (ub \/ r.ub)
           /\ status' \in Outcome(r.out, r.ub)
           /\ ret' = [Ret("verifyBAMIntegrity", r.ok) EXCEPT !.errors = r.errors, !.fix = fix]
    /\ flip' = IF flip.phase = "flipped" /\ fix THEN [flip EXCEPT !.phase = "fixed"]
               ELSE flip
    /\ prevData' = data
    /\ counts' = [counts EXCEPT !.calls = @ + 1]
    /\ UNCHANGED <<disktype, sptOob, replaceBit, lastSectorUsed, allocations, files>>

\* formatDisk(name)
FormatStep(name) ==
    /\ status = "run"
    /\ data' = formatDisk(TRACKS, sptOob, name)
    /\ ret' = Ret("formatDisk", TRUE)
    /\ files' = << >>
    /\ prevData' = data
    /\ counts' = [counts EXCEPT !.calls = @ + 1]
    /\ UNCHANGED <<disktype, sptOob, replaceBit, lastSectorUsed, status, ub,
                   allocations, flip>>

\* bamTrackEntry::set / reset on one sector's bit, the free count left alone
FlipBitStep(track, sector) ==
    /\ status = "run"
    /\ flip.phase = "none"
    /\ Len(files) > 0
    /\ track <= TRACKS /\ sector < SptAt(track - 1, 0)
    /\ LET b   == sector \div 8
           off == BamTrackOff(track - 1) + 1 + b
           old == Byte(data, off)
           new == IF BitSet(old, sector % 8) THEN WithoutBit(old, sector % 8)
                  ELSE WithBit(old, sector % 8)
       IN  /\ data' = PutByte(data, off, new)
           /\ flip' = [phase |-> "flipped", track |-> track, sector |-> sector,
                       wasFree |-> BitSet(old, sector % 8), bam |-> BamSector(data)]
    /\ ret' = [Ret("flip", TRUE) EXCEPT !.track = track, !.sector = sector]
    /\ prevData' = data
    /\ UNCHANGED <<disktype, sptOob, replaceBit, lastSectorUsed, status, ub,
                   allocations, files, counts>>

\* ------------------------------------------------------------------------
\* Specifications: the calls each group of properties is about
\* ------------------------------------------------------------------------
MaxBamOps == 3
BamAddrs == {<<18, 0>>, <<1, 0>>, <<17, 20>>, <<1, 21>>}

NextBam ==
    /\ counts.calls < MaxBamOps
    /\ \E a \in BamAddrs :
          \/ AllocateSectorStep(a[1], a[2])
          \/ FreeSectorStep(a[1], a[2])

SpecBam == Init /\ [][NextBam]_vars

MaxFileOps == 3
FileLengths == {0, 1, 254, 255}
FreshName == Name(counts.calls + 1)

NextFiles ==
    /\ counts.calls < MaxFileOps
    /\ \/ \E len \in FileLengths : AddFileStep(FreshName, PRG, Content(len, counts.calls))
       \/ \E n \in LiveNames : ReadFileStep(n)
       \/ \E n \in LiveNames : RemoveFileStep(n)

SpecFiles == Init /\ [][NextFiles]_vars

MaxRelOps == 3
\* record size, number of records
RelShapes == {<<64, 1>>, <<64, 2>>, <<254, 1>>, <<2, 127>>}

NextRel ==
    /\ counts.calls < MaxRelOps
    /\ \/ \E sh \in RelShapes :
             AddRelFileStep(FreshName, sh[1], Content(sh[1] * sh[2], counts.calls))
       \/ \E n \in LiveNames : ReadFileStep(n)
       \/ \E n \in LiveNames : RemoveFileStep(n)

SpecRel == Init /\ [][NextRel]_vars

MaxFill == 9
MaxFillRemoves == 1

NextFill ==
    /\ counts.calls < MaxFill
    /\ \/ AddFileStep(FreshName, PRG, Content(1, 0))
       \/ counts.removes < MaxFillRemoves /\ \E n \in LiveNames : RemoveFileStep(n)

SpecFill == Init /\ [][NextFill]_vars

MaxFormatOps == 3
DiskNames == {NEW_DISK, << >>, [k \in 1..17 |-> 64 + k]}

NextFormat ==
    /\ counts.calls < MaxFormatOps
    /\ \/ AddFileStep(FreshName, PRG, Content(255, counts.calls))
       \/ AllocStep
       \/ \E name \in DiskNames : FormatStep(name)

SpecFormat == Init /\ [][NextFormat]_vars

MaxVerifyFiles == 2
MaxVerifyOps == 5
FlipAddrs == {<<18, 0>>, <<18, 10>>, <<18, 2>>, <<1, 0>>, <<17, 20>>, <<40, 16>>}

\* the files of the verifier test: 255 bytes (two sectors), 1 byte, 255, ...
VerifyLength == 1 + 254 * ((counts.adds + 1) % 2)

NextVerify ==
    \/ /\ flip.phase = "none"
       /\ counts.adds < MaxVerifyFiles
       /\ AddFileStep(FreshName, PRG, Content(VerifyLength, counts.calls))
    \/ /\ flip.phase = "none"
       /\ Len(files) > 0
       /\ verifyBAMIntegrity(This, data, FALSE).ok
       /\ \E a \in FlipAddrs : FlipBitStep(a[1], a[2])
    \/ /\ flip.phase # "none"
       /\ counts.calls < MaxVerifyOps
       /\ \E fix \in BOOLEAN : VerifyStep(fix)

SpecVerify == Init /\ [][NextVerify]_vars

\* ------------------------------------------------------------------------
\* Claims about the allocator
\* ------------------------------------------------------------------------
RealTracks == 1..TRACKS
RealSectors(t) == 0..(SptAt(t - 1, 0) - 1)
Returned == {allocations[i] : i \in 1..Len(allocations)}
NoDuplicates(seq) == \A i, j \in 1..Len(seq) : i # j => seq[i] # seq[j]

\* C1: from a fresh disk, in any run of findAndAllocateFreeSector calls, no
\* address is returned twice, each returned address was free before the call,
\* the chosen track's free count drops by exactly 1 and no other track's
\* changes, and (18,0) and (18,1) are never returned.
C1_AllocationExclusive ==
    (ret.op = "findAndAllocateFreeSector" /\ ret.ok) =>
        /\ NoDuplicates(allocations)
        /\ BamBit(prevData, ret.track - 1, ret.sector)
        /\ BamFree(data, ret.track - 1) = BamFree(prevData, ret.track - 1) - 1
        /\ \A t \in RealTracks \ {ret.track} :
               BamFree(data, t - 1) = BamFree(prevData, t - 1)
        /\ <<DIRECTORY_TRACK, BAM_SECTOR>> \notin Returned
        /\ <<DIRECTORY_TRACK, DIRECTORY_SECTOR>> \notin Returned

\* C8: getFreeSectorCount() is the sum of the free counts of every track but
\* 18; on a fresh disk it is (image size / 256) - sectors_per_track(18); each
\* successful findAndAllocateFreeSector lowers it by 1 when the returned track
\* is not 18 and leaves it unchanged when it is 18.
C8_FreeSectorCount ==
    /\ getFreeSectorCount(TRACKS, data) =
           SumFree(data, TRACKS, 1)
    /\ ret.op = "init" =>
           getFreeSectorCount(TRACKS, data) =
               (DiskSizeOf(disktype) \div SECTOR_SIZE) - SptAt(DIRECTORY_TRACK - 1, 0)
    /\ (ret.op = "findAndAllocateFreeSector" /\ ret.ok) =>
           getFreeSectorCount(TRACKS, data) =
               getFreeSectorCount(TRACKS, prevData)
                   - (IF ret.track = DIRECTORY_TRACK THEN 0 ELSE 1)

\* ------------------------------------------------------------------------
\* Claims about the BAM
\* ------------------------------------------------------------------------
FreeBits(img, t) == {s \in RealSectors(t) : BamBit(img, t - 1, s)}

\* C2: after any run of allocateSector, freeSector and the calls built on
\* them, every track's free count equals the number of its real sectors
\* whose BAM bit is set, so the 8-bit counter stays within
\* 0..sectors_per_track and never wraps.
C2_FreeCountMatchesBits ==
    \A t \in RealTracks :
        /\ BamFree(data, t - 1) = Cardinality(FreeBits(data, t))
        /\ BamFree(data, t - 1) <= SptAt(t - 1, 0)

\* ------------------------------------------------------------------------
\* Claims about files
\* ------------------------------------------------------------------------
LastFile == files[Len(files)]
ReadOfLastFile(kind) ==
    /\ ret.op = "readFile"
    /\ Len(files) > 0
    /\ LastFile.name = ret.name
    /\ LastFile.kind = kind

\* C3: addFile with a sequential type returns true for every byte sequence
\* that fits (lengths 0, 1, 254, 255 among them), and a following
\* readFile(name) returns exactly the bytes that were added, also when
\* other files were added before.
C3_SequentialRoundTrip ==
    /\ ret.op = "addFile" => ret.ok
    /\ ReadOfLastFile("seq") =>
           /\ status = "run"
           /\ ret.ok
           /\ ret.value = LastFile.bytes

\* C4: addRelFile returns true for every record size in 1..254 and every
\* sequence of whole records that fits, and a following readFile(name)
\* returns exactly the bytes that were added.
C4_RelRoundTrip ==
    /\ ret.op = "addRelFile" => ret.ok
    /\ ReadOfLastFile("rel") =>
           /\ status = "run"
           /\ ret.ok
           /\ ret.value = LastFile.bytes

\* C5: after any run of add and remove calls with distinct names, every
\* entry directory() returns is closed and the length of directory() is the
\* number of adds that returned true minus the number of removes that
\* returned true, also with more than 8 live files.
C5_DirectoryCount ==
    status = "run" =>
        LET d == directory(TRACKS, data)
        IN  /\ d.out = "ok"
            /\ \A k \in 1..Len(d.list) : d.list[k][1] >= 128
            /\ Len(d.list) = counts.adds - counts.removes

\* C6: after any run of successful addFile and removeFile calls on a fresh
\* disk, verifyBAMIntegrity(false) returns true: the BAM marks a real sector
\* allocated exactly when it is the BAM sector, a directory sector or a
\* sector on a live entry's chain, and every free count matches.
C6_BamConsistentWithDirectory ==
    (status = "run" /\ ret.op \in {"init", "addFile", "removeFile"}) =>
        LET v == verifyBAMIntegrity(This, data, FALSE)
        IN  v.out = "ok" /\ v.ok

\* C10: removeFile of a live sequential file returns true and findFile no
\* longer finds the name; when the file came from an addFile that did not
\* grow the directory and the BAM was not changed in between, the BAM after
\* removeFile is the BAM before that addFile.
C10_RemoveRestoresBam ==
    (ret.op = "removeFile" /\ ret.file # << >> /\ ret.file.kind = "seq") =>
        /\ status = "run"
        /\ ret.ok
        /\ findFile(TRACKS, data, ret.name).entry < 0
        /\ BamSector(prevData) = ret.file.bamAfter =>
               BamSector(data) = ret.file.bam

\* ------------------------------------------------------------------------
\* Claims about a fresh disk and the verifier
\* ------------------------------------------------------------------------
AllocatedSectors(img) ==
    {ts \in {<<t, s>> : t \in RealTracks, s \in 0..20} :
        ts[2] \in RealSectors(ts[1]) /\ ~BamBit(img, ts[1] - 1, ts[2])}

FreshlyFormatted == ret.op \in {"init", "formatDisk"}

\* C7: a freshly formatted disk of either variant (35 tracks for
\* thirty_five_track, 40 for forty_track) is consistent: directory() is
\* empty, verifyBAMIntegrity(false) returns true and logs no discrepancy,
\* and exactly (18,0) and (18,1) are marked allocated.
C7_FreshDiskConsistent ==
    FreshlyFormatted =>
        /\ TRACKS = (IF disktype = thirty_five_track THEN TRACKS_35 ELSE TRACKS_40)
        /\ directory(TRACKS, data) = [out |-> "ok", list |-> << >>]
        /\ LET v == verifyBAMIntegrity(This, data, FALSE)
           IN  v.out = "ok" /\ v.ok /\ v.errors = 0 /\ v.img = data
        /\ AllocatedSectors(data) =
               {<<DIRECTORY_TRACK, BAM_SECTOR>>, <<DIRECTORY_TRACK, DIRECTORY_SECTOR>>}

\* a 40-track disk formatted again after a file was added and sectors were
\* allocated
C7_Witness ==
    /\ ret.op = "formatDisk"
    /\ disktype = forty_track
    /\ counts.adds > 0
    /\ Len(allocations) > 0

\* C9: on a consistent disk holding a live file, after one BAM bit is
\* flipped (free count untouched), verifyBAMIntegrity(false) returns false and
\* logs exactly one discrepancy; verifyBAMIntegrity(true) puts the BAM back;
\* verifyBAMIntegrity(false) after that returns true.
C9_VerifierFindsAndFixesFlip ==
    ret.op = "verifyBAMIntegrity" =>
        /\ status = "run"
        /\ (flip.phase = "flipped" /\ ~ret.fix) =>
               ~ret.ok /\ ret.errors = 1 /\ data = prevData
        /\ flip.phase = "fixed" =>
               BamSector(data) = flip.bam
        /\ (flip.phase = "fixed" /\ ~ret.fix) =>
               ret.ok /\ ret.errors = 0

\* a bit of a live file's sector was flipped to free, verify(true) ran, and
\* the verify(false) after it came back clean
C9_Witness ==
    /\ ret.op = "verifyBAMIntegrity"
    /\ ~ret.fix
    /\ ret.ok
    /\ flip.phase = "fixed"
    /\ ~flip.wasFree
    /\ flip.track # DIRECTORY_TRACK \/ flip.sector > DIRECTORY_SECTOR

\* ------------------------------------------------------------------------
\* Claims about removing REL files
\* ------------------------------------------------------------------------
\* a saved BAM sector as an image, for the BAM views
BamImage(bamSector) == (BamBase \div SECTOR_SIZE) :> bamSector

\* the real sectors an add took: free in the BAM before it, allocated after it
TakenBy(file) ==
    {ts \in {<<t, s>> : t \in RealTracks, s \in 0..20} :
        /\ ts[2] \in RealSectors(ts[1])
        /\ BamBit(BamImage(file.bam), ts[1] - 1, ts[2])
        /\ ~BamBit(BamImage(file.bamAfter), ts[1] - 1, ts[2])}

\* C11: removeFile of a live REL file that a successful addRelFile created
\* returns true and frees every sector addRelFile allocated for it, side
\* sectors and data sectors: none of them is marked allocated afterwards.
C11_RemoveRelFreesAll ==
    (ret.op = "removeFile" /\ ret.file # << >> /\ ret.file.kind = "rel") =>
        /\ status = "run"
        /\ ret.ok
        /\ \A ts \in TakenBy(ret.file) : BamBit(data, ts[1] - 1, ts[2])

\* ------------------------------------------------------------------------
\* Filling the disk (unittests: add_file_unit_test): one-sector files with
\* fresh names, added one after the other
\* ------------------------------------------------------------------------
MaxDiskFull == 30
\* a 144-byte file: one sector
OneSectorFile == Content(144, 0)

NextDiskFull ==
    /\ counts.calls < MaxDiskFull
    /\ AddFileStep(FreshName, PRG, OneSectorFile)

SpecDiskFull == Init /\ [][NextDiskFull]_vars

\* the number of real sectors the BAM bitmap marks free
FreeRealSectors(img) ==
    Cardinality({ts \in {<<t, s>> : t \in RealTracks, s \in 0..20} :
                     ts[2] \in RealSectors(ts[1]) /\ BamBit(img, ts[1] - 1, ts[2])})

\* sectors a file of fileSize bytes takes, 254 payload bytes a sector
SectorsPerFile(fileSize) == (fileSize + SECTOR_SIZE - 3) \div (SECTOR_SIZE - 2)

\* C12: on a blank 35-track disk, in the loop that adds 144-byte files with
\* fresh names until addFile fails, every add that returns true leaves one
\* more live file in directory() and takes free sectors from the BAM, so the
\* loop comes to a failing add; at the failing add the number of live files is
\* floor(free sectors outside track 18 / sectors per file) and
\* getFreeSectorCount() is below the size of one more file.
C12_FillEndsAtDiskFull ==
    (disktype = thirty_five_track /\ ret.op = "addFile") =>
        /\ ret.ok =>
               /\ status = "run"
               /\ Len(directory(TRACKS, data).list) = counts.adds
               /\ FreeRealSectors(data) < FreeRealSectors(prevData)
        /\ ~ret.ok =>
               /\ Len(directory(TRACKS, data).list) =
                      ((DiskSizeOf(thirty_five_track) \div SECTOR_SIZE) - SptAt(DIRECTORY_TRACK - 1, 0))
                          \div SectorsPerFile(Len(OneSectorFile))
               /\ getFreeSectorCount(TRACKS, data) < SectorsPerFile(Len(OneSectorFile))

\* ------------------------------------------------------------------------
\* Claims about the end of the allocator's search
\* ------------------------------------------------------------------------
\* C13: findAndAllocateFreeSector returns false exactly when no real sector
\* of any track is free, and then leaves the BAM as it was; a call that
\* returns true takes exactly one free real sector, so that calls from a
\* fresh disk succeed once per free sector and then fail.
C13_AllocatorFailsWhenFull ==
    ret.op = "findAndAllocateFreeSector" =>
        /\ ~ret.ok <=> (FreeRealSectors(prevData) = 0)
        /\ ~ret.ok => BamSector(data) = BamSector(prevData)
        /\ ret.ok => FreeRealSectors(data) = FreeRealSectors(prevData) - 1

\* ------------------------------------------------------------------------
\* Claims about redundant BAM calls
\* ------------------------------------------------------------------------
\* the call just made was on a real sector of the disk
OnRealSector == ret.track \in RealTracks /\ ret.sector \in RealSectors(ret.track)

\* C16: allocateSector on a sector that is already allocated returns false
\* and leaves the BAM bitmap and the track's free count as they were;
\* freeSector on a sector that is already free returns false and leaves them
\* as they were.
C16_RedundantCallRefused ==
    /\ (/\ ret.op = "allocateSector"
        /\ OnRealSector
        /\ ~BamBit(prevData, ret.track - 1, ret.sector)) =>
           (~ret.ok /\ BamSector(data) = BamSector(prevData))
    /\ (/\ ret.op = "freeSector"
        /\ OnRealSector
        /\ BamBit(prevData, ret.track - 1, ret.sector)) =>
           (~ret.ok /\ BamSector(data) = BamSector(prevData))

\* ------------------------------------------------------------------------
\* allocateSector(t, s) followed by freeSector(t, s)
\* ------------------------------------------------------------------------
RoundTripStep(track, sector) ==
    /\ status = "run"
    /\ \E a \in {allocateSector(TRACKS, sptOob, data, track, sector)} :
          \E f \in {freeSector(TRACKS, sptOob, a.img, track, sector)} :
             /\ data' = f.img
             /\ ret' = [Ret("allocateSector;freeSector", a.ok /\ f.ok) EXCEPT
                            !.track = track, !.sector = sector]
    /\ prevData' = data
    /\ counts' = [counts EXCEPT !.calls = @ + 1]
    /\ UNCHANGED <<disktype, sptOob, replaceBit, lastSectorUsed, status, ub,
                   allocations, files, flip>>

MaxRoundTripOps == 2
RoundTripAddrs == {<<1, 0>>, <<17, 20>>, <<18, 1>>, <<40, 16>>}

NextRoundTrip ==
    /\ counts.calls < MaxRoundTripOps
    /\ \E a \in RoundTripAddrs :
          \/ AllocateSectorStep(a[1], a[2])
          \/ FreeSectorStep(a[1], a[2])
          \/ RoundTripStep(a[1], a[2])

SpecRoundTrip == Init /\ [][NextRoundTrip]_vars

\* the call just made was the round trip on a real sector other than (18,0)
\* and (18,1)
RoundTripOnUnprotected ==
    /\ ret.op = "allocateSector;freeSector"
    /\ OnRealSector
    /\ <<ret.track, ret.sector>> \notin {<<DIRECTORY_TRACK, BAM_SECTOR>>,
                                         <<DIRECTORY_TRACK, DIRECTORY_SECTOR>>}

\* the BAM bit of the sector, the free count of its track and every other
\* track's BAM entry are what they were before the round trip
RoundTripRestores ==
    /\ BamBit(data, ret.track - 1, ret.sector) = BamBit(prevData, ret.track - 1, ret.sector)
    /\ BamFree(data, ret.track - 1) = BamFree(prevData, ret.track - 1)
    /\ \A t \in RealTracks \ {ret.track} :
           /\ BamFree(data, t - 1) = BamFree(prevData, t - 1)
           /\ FreeBits(data, t) = FreeBits(prevData, t)

\* C15 as stated: for every real address other than (18,0) and (18,1) and
\* every prior BAM state, allocateSector then freeSector restores the prior
\* BAM bit and free count and changes no other track.
C15_RoundTripFromAnyState ==
    RoundTripOnUnprotected => RoundTripRestores

\* C15: for every real address other than (18,0) and (18,1) and every prior
\* BAM state in which the sector is free, allocateSector then freeSector
\* restores the prior BAM bit and free count and changes no other track.
C15_RoundTripFromFree ==
    (RoundTripOnUnprotected /\ BamBit(prevData, ret.track - 1, ret.sector)) =>
        RoundTripRestores

\* a round trip in which both calls returned true, on a sector that was free
C15_Witness ==
    /\ RoundTripOnUnprotected
    /\ BamBit(prevData, ret.track - 1, ret.sector)
    /\ ret.ok
    /\ BamSector(data) = BamSector(prevData)

\* ------------------------------------------------------------------------
\* Reordering and compacting the directory
\* ------------------------------------------------------------------------
\* directoryEntry::operator==: every field, which is every byte but padd[2]
EntryEq(a, b) == SubSeq(a, 1, ENTRY_SIZE - 2) = SubSeq(b, 1, ENTRY_SIZE - 2)

\* std::vector<Directory_Entry>::operator==
ListEq(x, y) == Len(x) = Len(y) /\ \A k \in 1..Len(x) : EntryEq(x[k], y[k])

\* d64::Trim: the name without its trailing $A0 bytes
RECURSIVE Trim(_)
Trim(name) ==
    IF Len(name) = 0 \/ name[Len(name)] # A0_VALUE THEN name
    ELSE Trim(SubSeq(name, 1, Len(name) - 1))

\* entry.file_name of a directoryEntry value
FileNameOf(entry) == SubSeq(entry, E_NAME + 1, E_NAME + FILE_NAME_SZ)

\* std::find_if(files.begin(), files.end(), Trim(entry.file_name) == filename):
\* the index of the first match, or 0
RECURSIVE FindNamed(_, _, _)
FindNamed(list, filename, k) ==
    IF k > Len(list) THEN 0
    ELSE IF Trim(FileNameOf(list[k])) = filename THEN k
    ELSE FindNamed(list, filename, k + 1)

\* files.erase(it)
Erase(list, k) == SubSeq(list, 1, k - 1) \o SubSeq(list, k + 1, Len(list))

\* steps 1 and 2 of reorderDirectory(fileOrder): the entries named in
\* fileOrder in that order, then the entries left over
RECURSIVE OrderByNames(_, _, _, _)
OrderByNames(list, reordered, fileOrder, k) ==
    IF k > Len(fileOrder) THEN reordered \o list
    ELSE LET Taken(it) ==
                 IF it = 0 THEN OrderByNames(list, reordered, fileOrder, k + 1)
                 ELSE OrderByNames(Erase(list, it), Append(reordered, list[it]),
                                   fileOrder, k + 1)
         IN  Taken(FindNamed(list, fileOrder[k], 1))

\* the slots of one directory sector written from files[index + 1 ..]:
\* dirSectorPtr->fileEntry[i] = files[index], a copy of all 32 bytes of the
\* entry; the padd of fileEntry[7] goes to the two bytes after the sector
RECURSIVE WriteSlots(_, _, _, _, _, _)
WriteSlots(img, size, ptr, list, index, i) ==
    IF i >= FILES_PER_SECTOR \/ index >= Len(list) THEN img
    ELSE WriteSlots(PutSpan(img, size, EntryOff(ptr, i), list[index + 1]),
                    size, ptr, list, index + 1, i + 1)

\* the number of entries that loop writes
SlotsWritten(list, index) ==
    IF Len(list) - index < FILES_PER_SECTOR THEN Len(list) - index ELSE FILES_PER_SECTOR

\* the rewrite loop of reorderDirectory(files): each sector is cleared, next
\* pointer included, then filled, and the walk goes on from the next pointer
\* read after that
RECURSIVE RewriteChain(_, _, _, _, _, _, _)
RewriteChain(cx, img, ubw, t, s, list, index) ==
    IF t = 0 \/ index >= Len(list) THEN [img |-> img, out |-> "ok", ub |-> ubw]
    ELSE LET Filled(ptr, img1) ==
                 RewriteChain(cx, img1,
                              ubw \/ (Len(list) - index >= FILES_PER_SECTOR
                                      /\ OutOfImage(cx.size, ptr, SECTOR_SIZE + 2)),
                              Byte(img1, ptr), Byte(img1, ptr + 1), list,
                              index + SlotsWritten(list, index))
             At(ptr) ==
                 IF ptr < 0 THEN [img |-> img, out |-> "fault", ub |-> ubw]
                 ELSE Filled(ptr, WriteSlots(PutBytes(img, ptr, ZeroSector), cx.size,
                                             ptr, list, index, 0))
         IN  At(calcOffset(cx.tracks, t, s))

\* reorderDirectory(files) without the comparison with the current directory
reorderDirectoryAlways(cx, img, list) ==
    LET Rewritten(r) == [img |-> r.img, out |-> r.out, ub |-> r.ub, ok |-> r.out = "ok"]
        Compared(d) ==
            IF d.out # "ok" THEN [img |-> img, out |-> d.out, ub |-> FALSE, ok |-> FALSE]
            ELSE Rewritten(RewriteChain(cx, img, FALSE, DIRECTORY_TRACK,
                                        DIRECTORY_SECTOR, list, 0))
    IN  Compared(directory(cx.tracks, img))

\* d64::reorderDirectory(std::vector<Directory_Entry>& files)
reorderDirectory(cx, img, list) ==
    LET Rewritten(r) == [img |-> r.img, out |-> r.out, ub |-> r.ub, ok |-> r.out = "ok"]
        Compared(d) ==
            IF d.out # "ok" THEN [img |-> img, out |-> d.out, ub |-> FALSE, ok |-> FALSE]
            ELSE IF ListEq(d.list, list)
            THEN [img |-> img, out |-> "ok", ub |-> FALSE, ok |-> FALSE]
            ELSE Rewritten(RewriteChain(cx, img, FALSE, DIRECTORY_TRACK,
                                        DIRECTORY_SECTOR, list, 0))
    IN  Compared(directory(cx.tracks, img))

\* d64::reorderDirectory(const std::vector<std::string>& fileOrder)
reorderDirectoryNames(cx, img, fileOrder) ==
    LET Ordered(d, reordered) ==
            IF ListEq(d.list, reordered)
            THEN [img |-> img, out |-> "ok", ub |-> FALSE, ok |-> FALSE]
            ELSE reorderDirectory(cx, img, reordered)
        Listed(d) ==
            IF d.out # "ok" THEN [img |-> img, out |-> d.out, ub |-> FALSE, ok |-> FALSE]
            ELSE Ordered(d, OrderByNames(d.list, << >>, fileOrder, 1))
    IN  Listed(directory(cx.tracks, img))

\* a comparator for reorderDirectory(compare): file names in byte order,
\* ascending or descending
RECURSIVE NameBefore(_, _, _)
NameBefore(a, b, k) ==
    IF k > Len(a) \/ k > Len(b) THEN Len(a) < Len(b)
    ELSE IF a[k] # b[k] THEN a[k] < b[k]
    ELSE NameBefore(a, b, k + 1)

Compare(descending, a, b) ==
    IF descending THEN NameBefore(FileNameOf(b), FileNameOf(a), 1)
    ELSE NameBefore(FileNameOf(a), FileNameOf(b), 1)

\* std::sort(files.begin(), files.end(), compare) for entries no two of
\* which compare equal: each entry goes to the place given by the number of
\* entries before it
Sorted(list, descending) ==
    LET Rank(k) == Cardinality({j \in 1..Len(list) : Compare(descending, list[j], list[k])})
    IN  [p \in 1..Len(list) |-> list[CHOOSE k \in 1..Len(list) : Rank(k) = p - 1]]

\* d64::reorderDirectory(std::function<bool(...)> compare)
reorderDirectoryCompare(cx, img, descending) ==
    LET Listed(d) ==
            IF d.out # "ok" THEN [img |-> img, out |-> d.out, ub |-> FALSE, ok |-> FALSE]
            ELSE IF Len(d.list) = 0
            THEN [img |-> img, out |-> "ok", ub |-> FALSE, ok |-> FALSE]
            ELSE reorderDirectory(cx, img, Sorted(d.list, descending))
    IN  Listed(directory(cx.tracks, img))

\* step 3 of compactDirectory: from the sector just rewritten on, free each
\* sector but (18,1) and follow the next pointers as they are now
RECURSIVE FreeTail(_, _, _, _, _)
FreeTail(cx, img, t, s, seen) ==
    IF <<t, s>> \in seen THEN [img |-> img, out |-> "hung"]
    ELSE LET Freed(ptr, img1) ==
                 IF Byte(img, ptr) = 0 THEN [img |-> img1, out |-> "ok"]
                 ELSE FreeTail(cx, img1, Byte(img, ptr), Byte(img, ptr + 1),
                               seen \cup {<<t, s>>})
             At(ptr) ==
                 IF ptr < 0 THEN [img |-> img, out |-> "fault"]
                 ELSE IF t # DIRECTORY_TRACK \/ s # DIRECTORY_SECTOR
                 THEN Freed(ptr, freeSector(cx.tracks, cx.oob, img, t, s).img)
                 ELSE Freed(ptr, img)
         IN  At(calcOffset(cx.tracks, t, s))

\* step 2 of compactDirectory: clear the sector, next pointer included,
\* write up to 8 entries, then either free the tail or go on from the next
\* pointer read after the clear
RECURSIVE CompactChain(_, _, _, _, _, _, _)
CompactChain(cx, img, ubw, t, s, list, index) ==
    IF t = 0 THEN [img |-> img, out |-> "ok", ub |-> ubw]
    ELSE LET Tailed(r, u) == [img |-> r.img, out |-> r.out, ub |-> u]
             Filled(ptr, img1, u) ==
                 IF index + SlotsWritten(list, index) >= Len(list)
                 THEN Tailed(FreeTail(cx, img1, t, s, {}), u)
                 ELSE CompactChain(cx, img1, u, Byte(img1, ptr), Byte(img1, ptr + 1),
                                   list, index + SlotsWritten(list, index))
             At(ptr) ==
                 IF ptr < 0 THEN [img |-> img, out |-> "fault", ub |-> ubw]
                 ELSE Filled(ptr,
                             WriteSlots(PutBytes(img, ptr, ZeroSector), cx.size,
                                        ptr, list, index, 0),
                             ubw \/ (Len(list) - index >= FILES_PER_SECTOR
                                     /\ OutOfImage(cx.size, ptr, SECTOR_SIZE + 2)))
         IN  At(calcOffset(cx.tracks, t, s))

\* d64::compactDirectory()
compactDirectory(cx, img) ==
    LET Compacted(r) == [img |-> r.img, out |-> r.out, ub |-> r.ub, ok |-> r.out = "ok"]
        Collected(d) ==
            IF d.out # "ok" THEN [img |-> img, out |-> d.out, ub |-> FALSE, ok |-> FALSE]
            ELSE IF Len(d.list) = 0
            THEN [img |-> img, out |-> "ok", ub |-> FALSE, ok |-> FALSE]
            ELSE Compacted(CompactChain(cx, img, FALSE, DIRECTORY_TRACK,
                                        DIRECTORY_SECTOR, d.list, 0))
    IN  Collected(directory(cx.tracks, img))

\* ------------------------------------------------------------------------
\* Calls that rewrite the directory
\* ------------------------------------------------------------------------
\* reorderDirectory(fileOrder)
ReorderNamesStep(fileOrder) ==
    /\ status = "run"
    /\ \E r \in {reorderDirectoryNames(This, data, fileOrder)} :
           /\ data' = r.img
           /\ ub' = (ub \/ r.ub)
           /\ status' \in Outcome(r.out, r.ub)
           /\ ret' = [Ret("reorderDirectory(names)", r.ok) EXCEPT !.value = fileOrder]
    /\ prevData' = data
    /\ counts' = [counts EXCEPT !.calls = @ + 1]
    /\ UNCHANGED <<disktype, sptOob, replaceBit, lastSectorUsed, allocations, files, flip>>

\* reorderDirectory(compare)
ReorderCompareStep(descending) ==
    /\ status = "run"
    /\ \E r \in {reorderDirectoryCompare(This, data, descending)} :
           /\ data' = r.img
           /\ ub' = (ub \/ r.ub)
           /\ status' \in Outcome(r.out, r.ub)
           /\ ret' = [Ret("reorderDirectory(compare)", r.ok) EXCEPT !.fix = descending]
    /\ prevData' = data
    /\ counts' = [counts EXCEPT !.calls = @ + 1]
    /\ UNCHANGED <<disktype, sptOob, replaceBit, lastSectorUsed, allocations, files, flip>>

\* compactDirectory()
CompactStep ==
    /\ status = "run"
    /\ \E r \in {compactDirectory(This, data)} :
           /\ data' = r.img
           /\ ub' = (ub \/ r.ub)
           /\ status' \in Outcome(r.out, r.ub)
           /\ ret' = Ret("compactDirectory", r.ok)
    /\ prevData' = data
    /\ counts' = [counts EXCEPT !.calls = @ + 1]
    /\ UNCHANGED <<disktype, sptOob, replaceBit, lastSectorUsed, allocations, files, flip>>

\* the names of the entries of directory(), in its order
NamesOf(list) == [k \in 1..Len(list) |-> Trim(FileNameOf(list[k]))]
CurrentNames == NamesOf(directory(TRACKS, data).list)
Reverse(seq) == [k \in 1..Len(seq) |-> seq[Len(seq) + 1 - k]]
Rotate(seq) == IF Len(seq) = 0 THEN seq ELSE SubSeq(seq, 2, Len(seq)) \o <<seq[1]>>

\* the orders asked for: the current one, its reverse, its rotation and the
\* last name alone
Orders ==
    {CurrentNames, Reverse(CurrentNames), Rotate(CurrentNames),
     IF Len(CurrentNames) = 0 THEN << >> ELSE <<CurrentNames[Len(CurrentNames)]>>}

MaxReorderOps == 4
MaxReorderFiles == 3

NextReorder ==
    /\ counts.calls < MaxReorderOps
    /\ \/ counts.adds < MaxReorderFiles /\ AddFileStep(FreshName, PRG, Content(1, 0))
       \/ \E order \in Orders : ReorderNamesStep(order)
       \/ \E descending \in BOOLEAN : ReorderCompareStep(descending)

SpecReorder == Init /\ [][NextReorder]_vars

\* ------------------------------------------------------------------------
\* Claims about reordering to the current order
\* ------------------------------------------------------------------------
\* list is in the order the comparator gives
InOrder(list, descending) ==
    \A k \in 1..(Len(list) - 1) : Compare(descending, list[k], list[k + 1])

\* the call just made asked for the order the directory already had
AskedForCurrentOrder ==
    \/ /\ ret.op = "reorderDirectory(names)"
       /\ ret.value = NamesOf(directory(TRACKS, prevData).list)
    \/ /\ ret.op = "reorderDirectory(compare)"
       /\ InOrder(directory(TRACKS, prevData).list, ret.fix)

\* C17: reorderDirectory called with the order the directory already has,
\* as a name list or as a comparator under which it is already sorted,
\* returns false and leaves every byte of the image as it was.
C17_ReorderToCurrentOrder ==
    (status = "run" /\ AskedForCurrentOrder) => (~ret.ok /\ data = prevData)

\* such a call on a directory of at least two entries that an earlier call
\* has put into another order
C17_Witness ==
    /\ status = "run"
    /\ AskedForCurrentOrder
    /\ Len(directory(TRACKS, prevData).list) >= 2
    /\ NamesOf(directory(TRACKS, prevData).list) #
           [k \in 1..Len(files) |-> files[k].name]
    /\ ~ret.ok

\* ------------------------------------------------------------------------
\* Loading an image (d64::load)
\* ------------------------------------------------------------------------
\* d64::validateD64() on the bytes read
validateD64(cx, img) ==
    LET dir == calcOffset(cx.tracks, DIRECTORY_TRACK, DIRECTORY_SECTOR)
    IN  /\ Byte(img, BamBase) = DIRECTORY_TRACK
        /\ Byte(img, BamBase + 1) = DIRECTORY_SECTOR
        /\ \/ Byte(img, dir) = DIRECTORY_TRACK
           \/ Byte(img, dir) = 0 /\ Byte(img, dir + 1) = 255

\* d64::load(filename) for a file of the size of the disk type in use: the
\* bytes read, or a formatted disk when they do not validate
load(cx, file) ==
    IF validateD64(cx, file) THEN file ELSE formatDisk(cx.tracks, cx.oob, NEW_DISK)

\* The files read: images of a disk written by a drive that chains its
\* directory sectors (18,1) -> (18,4) -> (18,7), holding n one-sector PRG
\* files "FA", "FB", ... with the data sector of file k at (17, k - 1)
DirSectorOf(k) == DIRECTORY_SECTOR + 3 * ((k - 1) \div FILES_PER_SECTOR)

\* file k put on the image that holds the files before it
WithFile(cx, img, k) ==
    LET Entered(i) ==
            PutSpan(i, cx.size,
                    EntryOff(calcOffset(cx.tracks, DIRECTORY_TRACK, DirSectorOf(k)),
                             (k - 1) % FILES_PER_SECTOR),
                    SeqEntry(cx, Name(k), PRG, DIRECTORY_TRACK - 1, k - 1, 1))
        Stored(i) ==
            Entered(PutBytes(allocateSector(cx.tracks, cx.oob, i, DIRECTORY_TRACK - 1, k - 1).img,
                             calcOffset(cx.tracks, DIRECTORY_TRACK - 1, k - 1),
                             <<0, 1, 64 + k>> \o Zeros(SECTOR_SIZE - 3)))
        \* a further directory sector: allocated, cleared, ended, linked
        Linked(i) ==
            PutBytes(PutBytes(allocateSector(cx.tracks, cx.oob, i, DIRECTORY_TRACK,
                                             DirSectorOf(k)).img,
                              calcOffset(cx.tracks, DIRECTORY_TRACK, DirSectorOf(k)),
                              ClearedDirSector),
                     calcOffset(cx.tracks, DIRECTORY_TRACK, DirSectorOf(k - 1)),
                     <<DIRECTORY_TRACK, DirSectorOf(k)>>)
    IN  IF k > 1 /\ (k - 1) % FILES_PER_SECTOR = 0 THEN Stored(Linked(img))
        ELSE Stored(img)

\* (each image is computed before the next file is put on it)
\* the n files from file k put on the image: half of them, then the rest
RECURSIVE WithFiles(_, _, _, _)
WithFiles(cx, img, k, n) ==
    IF n <= 0 THEN img
    ELSE IF n = 1 THEN WithFile(cx, img, k)
    ELSE CHOOSE next \in {WithFiles(cx, i, k + n \div 2, n - n \div 2) :
                              i \in {WithFiles(cx, img, k, n \div 2)}} : TRUE

WrittenImage(cx, n) ==
    CHOOSE written \in {WithFiles(cx, blank, 1, n) :
                            blank \in {formatDisk(cx.tracks, cx.oob, NEW_DISK)}} : TRUE

\* load(filename) of the image with n files
LoadStep(n) ==
    /\ status = "run"
    /\ \E file \in {WrittenImage(This, n)} : data' = load(This, file)
    /\ ret' = Ret("load", TRUE)
    /\ files' = [k \in 1..n |->
                    [name |-> Name(k), kind |-> "seq", bytes |-> <<64 + k>>,
                     bam |-> BamSector(WrittenImage(This, k - 1)),
                     bamAfter |-> BamSector(WrittenImage(This, k))]]
    /\ prevData' = data
    /\ counts' = [counts EXCEPT !.calls = @ + 1, !.adds = n, !.removes = 0]
    /\ UNCHANGED <<disktype, sptOob, replaceBit, lastSectorUsed, status, ub,
                   allocations, flip>>

MaxLoadedOps == 3
LoadedFiles == {0, 2, 8, 9, 10, 17}

\* a load, then calls that rewrite the directory
NextLoaded ==
    \/ counts.calls = 0 /\ \E n \in LoadedFiles : LoadStep(n)
    \/ /\ counts.calls > 0
       /\ counts.calls < MaxLoadedOps
       /\ \/ \E order \in Orders : ReorderNamesStep(order)
          \/ \E descending \in BOOLEAN : ReorderCompareStep(descending)
          \/ \E name \in {CurrentNames[k] : k \in {1, Len(CurrentNames)} \cap DOMAIN CurrentNames} :
                 RemoveFileStep(name)
          \/ CompactStep

SpecLoaded == Init /\ [][NextLoaded]_vars

\* ------------------------------------------------------------------------
\* Claims about reordering and compacting a directory of any length
\* ------------------------------------------------------------------------
DirBefore == directory(TRACKS, prevData)
DirAfter == directory(TRACKS, data)

\* p names every entry of the list exactly once
IsPermutation(p, names) ==
    /\ Len(p) = Len(names)
    /\ \A k \in 1..Len(names) :
           Cardinality({j \in 1..Len(p) : p[j] = names[k]}) = 1

\* C18: for a well-formed directory of n live entries, n above 8 included,
\* and a permutation p of their names, reorderDirectory(p) leaves the chain
\* terminated and makes directory() return the same entries in the order p:
\* as many as before, the k-th named p[k] and equal to the entry of that name
\* before the call.  (Reordering back to the first order then gives the first
\* sequence again, this being the same statement for the second call.)
C18_ReorderPermutes ==
    (/\ status = "run"
     /\ ret.op = "reorderDirectory(names)"
     /\ DirBefore.out = "ok"
     /\ IsPermutation(ret.value, NamesOf(DirBefore.list))) =>
        /\ DirAfter.out = "ok"
        /\ Len(DirAfter.list) = Len(DirBefore.list)
        /\ \A k \in 1..Len(DirAfter.list) :
               /\ Trim(FileNameOf(DirAfter.list[k])) = ret.value[k]
               /\ \E j \in 1..Len(DirBefore.list) :
                      DirAfter.list[k] = DirBefore.list[j]

\* the closed flags of the slots of the chain, in chain order
RECURSIVE SlotFlags(_, _, _)
SlotFlags(img, sectors, k) ==
    IF k > Len(sectors) THEN << >>
    ELSE [i \in 1..FILES_PER_SECTOR |->
             Closed(img, EntryOff(calcOffset(TRACKS, sectors[k][1], sectors[k][2]), i - 1))]
         \o SlotFlags(img, sectors, k + 1)

\* no slot that is not live comes before a live one
Dense(img) ==
    LET flags == SlotFlags(img, DirChain(TRACKS, img).sectors, 1)
    IN  \A i, j \in 1..Len(flags) : (i < j /\ flags[j]) => flags[i]

\* C19: compactDirectory on a directory with a live entry returns true and
\* leaves directory() with the same entries in the same order, stored
\* densely, however many entries and directory sectors there are; with no
\* live entry it returns false and changes no byte.
C19_CompactKeepsEntries ==
    (status = "run" /\ ret.op = "compactDirectory" /\ DirBefore.out = "ok") =>
        IF Len(DirBefore.list) = 0
        THEN ~ret.ok /\ data = prevData
        ELSE /\ ret.ok
             /\ DirAfter.out = "ok"
             /\ ListEq(DirAfter.list, DirBefore.list)
             /\ Dense(data)

\* the sectors of the directory chain before the call that hold no live
\* entry after it: those no longer on the chain and those on it without a
\* closed entry
EmptiedSectors ==
    {ts \in {DirChain(TRACKS, prevData).sectors[k] :
                 k \in 1..Len(DirChain(TRACKS, prevData).sectors)} :
        \/ ts \notin {DirChain(TRACKS, data).sectors[k] :
                          k \in 1..Len(DirChain(TRACKS, data).sectors)}
        \/ ClosedEntries(data, calcOffset(TRACKS, ts[1], ts[2])) = << >>}
    \ {<<DIRECTORY_TRACK, DIRECTORY_SECTOR>>}

\* C20: after compactDirectory has returned true, every sector of the
\* former directory chain that holds no live entry any more, (18,1) apart,
\* is marked free in the BAM, its track's free count raised by the number
\* of such sectors, and is not linked from the directory chain.
C20_CompactFreesTail ==
    (status = "run" /\ ret.op = "compactDirectory" /\ ret.ok /\ DirBefore.out = "ok") =>
        /\ \A ts \in EmptiedSectors :
               /\ BamBit(data, ts[1] - 1, ts[2])
               /\ ts \notin {DirChain(TRACKS, data).sectors[k] :
                                 k \in 1..Len(DirChain(TRACKS, data).sectors)}
        /\ \A t \in RealTracks :
               BamFree(data, t - 1) =
                   BamFree(prevData, t - 1)
                       + Cardinality({ts \in EmptiedSectors : ts[1] = t})

\* ------------------------------------------------------------------------
\* Any mix of the calls that free, add, remove, rewrite and repair
\* ------------------------------------------------------------------------
MaxMixedOps == 3
ProtectedSectors == {<<DIRECTORY_TRACK, BAM_SECTOR>>, <<DIRECTORY_TRACK, DIRECTORY_SECTOR>>}

NextMixed ==
    /\ counts.calls < MaxMixedOps
    /\ \/ \E a \in ProtectedSectors : FreeSectorStep(a[1], a[2])
       \/ \E name \in LiveNames : RemoveFileStep(name)
       \/ CompactStep
       \/ ReorderNamesStep(Reverse(CurrentNames))
       \/ ReorderCompareStep(TRUE)
       \/ AddFileStep(FreshName, PRG, Content(1, 0))
       \/ AddRelFileStep(FreshName, 64, Content(64, 0))
       \/ VerifyStep(TRUE)

SpecMixed == Init /\ [][NextMixed]_vars

\* ------------------------------------------------------------------------
\* Claims about the protected sectors
\* ------------------------------------------------------------------------
\* C14: in every state reached from a formatted disk by freeSector,
\* removeFile, compactDirectory, reorderDirectory, addFile, addRelFile and
\* verifyBAMIntegrity(true) calls, (18,0) and (18,1) are marked allocated in
\* the BAM, and a freeSector call on either of them has returned false and
\* changed nothing.
C14_ProtectedSectorsAllocated ==
    /\ \A ts \in ProtectedSectors : ~BamBit(data, ts[1] - 1, ts[2])
    /\ (ret.op = "freeSector" /\ <<ret.track, ret.sector>> \in ProtectedSectors) =>
           (~ret.ok /\ data = prevData)

\* freeSector called on a protected sector of a disk that holds a file
C14_Witness ==
    /\ ret.op = "freeSector"
    /\ <<ret.track, ret.sector>> \in ProtectedSectors
    /\ Len(files) > 0
    /\ data # WrittenImage(This, 0)
    /\ ~ret.ok

\* ------------------------------------------------------------------------
\* Renaming and locking
\* ------------------------------------------------------------------------
\* d64::renameFile(oldfilename, newfilename)
renameFile(cx, img, oldfilename, newfilename) ==
    LET Found(f) ==
            IF f.out # "ok" THEN [img |-> img, ub |-> FALSE, out |-> f.out, ok |-> FALSE]
            ELSE IF f.entry < 0 THEN [img |-> img, ub |-> FALSE, out |-> "ok", ok |-> FALSE]
            ELSE [img |-> PutSpan(img, cx.size, f.entry + E_NAME,
                                  PadTo(Take(newfilename, FILE_NAME_SZ), FILE_NAME_SZ)),
                  ub |-> OutOfImage(cx.size, f.entry + E_NAME, FILE_NAME_SZ),
                  out |-> "ok", ok |-> TRUE]
    IN  Found(findFile(cx.tracks, img, oldfilename))

\* file_type.locked = lock ? 1 : 0 on the type byte b (bit 6)
WithLocked(b, lock) == IF lock THEN WithBit(b, 6) ELSE WithoutBit(b, 6)

\* d64::lockfile(filename, lock)
lockfile(cx, img, filename, lock) ==
    LET Found(f) ==
            IF f.out # "ok" THEN [img |-> img, ub |-> FALSE, out |-> f.out, ok |-> FALSE]
            ELSE IF f.entry < 0 THEN [img |-> img, ub |-> FALSE, out |-> "ok", ok |-> FALSE]
            ELSE [img |-> PutSpan(img, cx.size, f.entry,
                                  <<WithLocked(Byte(img, f.entry), lock)>>),
                  ub |-> FALSE, out |-> "ok", ok |-> TRUE]
    IN  Found(findFile(cx.tracks, img, filename))

\* renameFile(oldfilename, newfilename)
RenameStep(oldfilename, newfilename) ==
    /\ status = "run"
    /\ \E r \in {renameFile(This, data, oldfilename, newfilename)} :
           /\ data' = r.img
           /\ ub' = (ub \/ r.ub)
           /\ status' \in Outcome(r.out, r.ub)
           /\ ret' = [Ret("renameFile", r.ok) EXCEPT !.name = oldfilename]
           /\ files' = IF r.ok /\ oldfilename \in LiveNames
                       THEN [files EXCEPT ![FileNamed(oldfilename)].name = newfilename]
                       ELSE files
    /\ prevData' = data
    /\ counts' = [counts EXCEPT !.calls = @ + 1]
    /\ UNCHANGED <<disktype, sptOob, replaceBit, lastSectorUsed, allocations, flip>>

\* lockfile(filename, lock)
LockStep(filename, lock) ==
    /\ status = "run"
    /\ \E r \in {lockfile(This, data, filename, lock)} :
           /\ data' = r.img
           /\ ub' = (ub \/ r.ub)
           /\ status' \in Outcome(r.out, r.ub)
           /\ ret' = [Ret("lockfile", r.ok) EXCEPT !.name = filename, !.fix = lock]
    /\ prevData' = data
    /\ counts' = [counts EXCEPT !.calls = @ + 1]
    /\ UNCHANGED <<disktype, sptOob, replaceBit, lastSectorUsed, allocations, files, flip>>

MaxNameOps == 3
MaxNameFiles == 2

\* the names asked for: those of the directory, a name no file has, the
\* first letter of the file names alone, a name one letter longer, no name
NameInputs ==
    {CurrentNames[k] : k \in DOMAIN CurrentNames}
        \cup {Name(20), <<70>>, Name(1) \o <<65>>, << >>}

NextNames ==
    /\ counts.calls < MaxNameOps
    /\ \/ counts.adds < MaxNameFiles /\ AddFileStep(FreshName, PRG, Content(1, 0))
       \/ \E name \in NameInputs :
             \/ RemoveFileStep(name)
             \/ RenameStep(name, Name(30))
             \/ LockStep(name, TRUE)
             \/ ReadFileStep(name)

SpecNames == Init /\ [][NextNames]_vars

\* ------------------------------------------------------------------------
\* Claims about names that match no file
\* ------------------------------------------------------------------------
\* the call just made named a file, and no entry of directory() before the
\* call had that name
NamedNoFile ==
    /\ ret.op \in {"removeFile", "renameFile", "lockfile", "readFile"}
    /\ DirBefore.out = "ok"
    /\ ret.name \notin {NamesOf(DirBefore.list)[k] : k \in DOMAIN DirBefore.list}

\* C21: removeFile, renameFile, lockfile and readFile called with a name
\* that no live directory entry has return failure and leave every byte of
\* the image, the BAM included, as it was.
C21_UnknownNameRefused ==
    NamedNoFile => (status = "run" /\ ~ret.ok /\ data = prevData)

\* such a call on a disk that holds a file
C21_Witness ==
    /\ NamedNoFile
    /\ Len(DirBefore.list) > 0
    /\ ~ret.ok
    /\ ret.op \in {"removeFile", "renameFile"}

\* ------------------------------------------------------------------------
\* Claims about the record size of a relative file
\* ------------------------------------------------------------------------
MaxRecordSizeOps == 2
\* record_size is a uint8_t: the two ends of its range, and the two ends of
\* the sizes a sector can hold
RecordSizes == {0, 1, 254, 255}

NextRecordSize ==
    /\ counts.calls < MaxRecordSizeOps
    /\ \/ \E size \in RecordSizes, len \in {1, 255} :
             AddRelFileStep(FreshName, size, Content(len, counts.calls))
       \/ \E n \in LiveNames : RemoveFileStep(n)

SpecRecordSize == Init /\ [][NextRecordSize]_vars

\* the call just made was addRelFile with a record size of 0 or above 254
BadRecordSize ==
    /\ ret.op = "addRelFile"
    /\ (ret.value[1] = 0 \/ ret.value[1] > SECTOR_SIZE - 2)

\* C22: addRelFile with a record_size of 0 or above the 254 bytes a sector
\* can hold fails, allocates no sector and creates no directory entry.
C22_BadRecordSizeRefused ==
    BadRecordSize =>
        /\ ~ret.ok
        /\ BamImage(data) = BamImage(prevData)
        /\ DirAfter.list = DirBefore.list

\* ------------------------------------------------------------------------
\* Claims about the address translation
\* ------------------------------------------------------------------------
\* calcOffset(track, sector)
CalcOffsetStep(track, sector) ==
    /\ status = "run"
    /\ \E offset \in {calcOffset(TRACKS, track, sector)} :
           ret' = [Ret("calcOffset", offset # -1) EXCEPT
                       !.track = track, !.sector = sector, !.value = <<offset>>]
    /\ prevData' = data
    /\ counts' = [counts EXCEPT !.calls = @ + 1]
    /\ UNCHANGED <<disktype, sptOob, replaceBit, data, lastSectorUsed, status, ub,
                   allocations, files, flip>>

MaxOffsetOps == 1
\* the first and the last track of each speed zone of both geometries, one
\* track past each end, and one sector past each end of the longest track
OffsetTracks == {0, 1, 17, 18, 24, 25, 30, 31, TRACKS_35, TRACKS_35 + 1, TRACKS_40, TRACKS_40 + 1}
OffsetSectors == -1 .. 22

NextOffset ==
    /\ counts.calls < MaxOffsetOps
    /\ \E track \in OffsetTracks, sector \in OffsetSectors : CalcOffsetStep(track, sector)

SpecOffset == Init /\ [][NextOffset]_vars

\* the address (track, sector) names a sector of the disk
ValidAddress(track, sector) ==
    /\ track \in 1 .. TRACKS
    /\ sector \in 0 .. SECTORS_PER_TRACK[track] - 1

\* C23: calcOffset yields a byte offset exactly for 1 <= track <= TRACKS and
\* 0 <= sector < sectors_per_track(track), and -1 for every other pair, the
\* pairs with sector = sectors_per_track(track) included.
C23_OffsetOnlyForValidAddress ==
    ret.op = "calcOffset" =>
        IF ValidAddress(ret.track, ret.sector)
        THEN ret.value[1] >= 0
        ELSE ret.value[1] = -1

\* ------------------------------------------------------------------------
\* Claims about the directory slot of a new file
\* ------------------------------------------------------------------------
\* the last call was an addFile that returned true
Added == status = "run" /\ ret.op = "addFile" /\ ret.ok

\* C24: the slot findEmptyDirectorySlot returns lies in the directory chain,
\* also when it had to allocate, clear and link a new directory sector: the
\* entry addFile writes there is found by findFile and listed by directory().
C24_NewSlotReachable ==
    Added =>
        /\ findFile(TRACKS, data, ret.name).entry >= 0
        /\ Len(DirAfter.list) = Len(DirBefore.list) + 1

\* ------------------------------------------------------------------------
\* Claims about the end of file chains
\* ------------------------------------------------------------------------
\* the walk from the start address of the entry at e along the next pointers
\* stays on the disk, meets no sector twice and reaches a track 0
ChainEnds(img, e) == readPRGFile(This, img, e).out = "ok"

\* C25: on every disk reached from a fresh format by addFile, addRelFile and
\* removeFile calls that returned true, the chain of every live entry is
\* finite (in range, no sector twice, ending in a track-0 terminator), for a
\* 0-byte file as for any other.
C25_ChainsAreFinite ==
    (status = "run" /\ ret.ok /\ ret.op \in {"init", "addFile", "removeFile"}) =>
        \A k \in DOMAIN DirChain(TRACKS, data).entries :
            ChainEnds(data, DirChain(TRACKS, data).entries[k])

\* ------------------------------------------------------------------------
\* Claims about what adding a file leaves alone
\* ------------------------------------------------------------------------
\* the sectors met from (track, sector) along the next pointers, up to a
\* track 0, a sector met before or an address outside the disk
RECURSIVE ChainSectors(_, _, _, _)
ChainSectors(img, track, sector, seen) ==
    IF track = 0 \/ <<track, sector>> \in seen \/ ~ValidAddress(track, sector)
    THEN seen
    ELSE ChainSectors(img, Byte(img, calcOffset(TRACKS, track, sector)),
                      Byte(img, calcOffset(TRACKS, track, sector) + 1),
                      seen \cup {<<track, sector>>})

\* the sectors of the file whose directory entry is e (type, start, name...)
SectorsOf(img, e) == ChainSectors(img, e[2], e[3], {})

\* the sectors of the directory chain
DirSectors(img) == ChainSectors(img, DIRECTORY_TRACK, DIRECTORY_SECTOR, {})

MaxFrameOps == 3
\* files of 1 sector and of 19 sectors: track 18 has 17 free sectors
FrameLengths == {1, 18 * DATA_SIZE + 1}

NextFrame ==
    /\ counts.calls < MaxFrameOps
    /\ \/ \E len \in FrameLengths : AddFileStep(FreshName, PRG, Content(len, counts.calls))
       \/ AddRelFileStep(FreshName, 64, Content(64, counts.calls))
       \/ \E n \in LiveNames : ReadFileStep(n)

SpecFrame == Init /\ [][NextFrame]_vars

\* C26: after any addFile or addRelFile, every file that was live before the
\* call reads as it did before, no sector lies on the chains of two live
\* files, and no chain of a live file holds the BAM sector or a directory
\* sector.
C26_AddLeavesFilesAlone ==
    (status = "run" /\ ret.op \in {"addFile", "addRelFile"}) =>
        /\ \A k \in DOMAIN DirBefore.list :
               readFile(This, data, Trim(FileNameOf(DirBefore.list[k])))
                   = readFile(This, prevData, Trim(FileNameOf(DirBefore.list[k])))
        /\ \A i, j \in DOMAIN DirAfter.list :
               i # j => SectorsOf(data, DirAfter.list[i]) \cap SectorsOf(data, DirAfter.list[j]) = {}
        /\ \A i \in DOMAIN DirAfter.list :
               SectorsOf(data, DirAfter.list[i])
                   \cap ({<<DIRECTORY_TRACK, BAM_SECTOR>>} \cup DirSectors(data)) = {}

\* ------------------------------------------------------------------------
\* Claims about the verifier and relative files
\* ------------------------------------------------------------------------
MaxRelVerifyOps == 2

NextRelVerify ==
    /\ counts.calls < MaxRelVerifyOps
    /\ \/ \E sh \in RelShapes :
             AddRelFileStep(FreshName, sh[1], Content(sh[1] * sh[2], counts.calls))
       \/ \E fix \in BOOLEAN : VerifyStep(fix)

SpecRelVerify == Init /\ [][NextRelVerify]_vars

\* the verifier has just run on a fresh disk with one relative file, added
\* by the call before it
VerifiedAfterRel ==
    /\ status = "run"
    /\ ret.op = "verifyBAMIntegrity"
    /\ counts.calls = 2
    /\ Len(files) = 1
    /\ files[1].kind = "rel"

\* C27: after a successful addRelFile on a freshly formatted disk,
\* verifyBAMIntegrity(false) returns true, and verifyBAMIntegrity(true)
\* frees none of the side and data sectors of the file: it leaves the BAM
\* as addRelFile left it.
C27_VerifierAcceptsRelFile ==
    VerifiedAfterRel =>
        /\ ret.ok
        /\ BamImage(data) = BamImage(prevData)

\* ------------------------------------------------------------------------
\* Saving and loading the image in use
\* ------------------------------------------------------------------------
\* save(filename), which writes every byte of data, then load(filename)
SaveLoadStep ==
    /\ status = "run"
    /\ \E file \in {data} : data' = load(This, file)
    /\ ret' = Ret("save;load", TRUE)
    /\ prevData' = data
    /\ counts' = [counts EXCEPT !.calls = @ + 1]
    /\ UNCHANGED <<disktype, sptOob, replaceBit, lastSectorUsed, status, ub,
                   allocations, files, flip>>

MaxSavedOps == 3

NextSaved ==
    /\ counts.calls < MaxSavedOps
    /\ \/ AddFileStep(FreshName, PRG, Content(1, 0))
       \/ AddRelFileStep(FreshName, 64, Content(64, 0))
       \/ \E name \in LiveNames : RemoveFileStep(name)
       \/ \E name \in LiveNames : RenameStep(name, Name(30))
       \/ \E name \in LiveNames : LockStep(name, TRUE)
       \/ ReorderNamesStep(Reverse(CurrentNames))
       \/ CompactStep
       \/ SaveLoadStep

SpecSaved == Init /\ [][NextSaved]_vars

\* C28: every image made from a fresh disk by addFile, addRelFile,
\* removeFile, renameFile, lockfile, reorderDirectory and compactDirectory
\* passes validateD64, so save followed by load gives back the same bytes
\* and never a freshly formatted disk.
C28_SaveLoadIdentical ==
    ret.op = "save;load" => (validateD64(This, prevData) /\ data = prevData)

\* ------------------------------------------------------------------------
\* Claims about the layout of a sequential file
\* ------------------------------------------------------------------------
\* the sectors met from (track, sector) along the next pointers, in order,
\* up to a track 0, a sector met before or an address outside the disk
RECURSIVE ChainList(_, _, _, _)
ChainList(img, track, sector, acc) ==
    IF track = 0 \/ ~ValidAddress(track, sector)
       \/ \E k \in DOMAIN acc : acc[k] = <<track, sector>>
    THEN acc
    ELSE ChainList(img, Byte(img, calcOffset(TRACKS, track, sector)),
                   Byte(img, calcOffset(TRACKS, track, sector) + 1),
                   Append(acc, <<track, sector>>))

\* the two link bytes and the 254 payload bytes of the sector at address a
LinkOf(img, a) == Bytes(img, calcOffset(TRACKS, a[1], a[2]), 2)
PayloadOf(img, a) == Bytes(img, calcOffset(TRACKS, a[1], a[2]) + 2, DATA_SIZE)

\* bytes k*254+1 .. of a file, at most 254 of them
Slice(bytes, k) ==
    SubSeq(bytes, k * DATA_SIZE + 1,
           IF (k + 1) * DATA_SIZE < Len(bytes) THEN (k + 1) * DATA_SIZE ELSE Len(bytes))

MaxLayoutOps == 3
\* 1, 2 and 19 sectors, with a last sector that holds one byte or is full;
\* track 18 has 17 free sectors and track 17 has 21
LayoutLengths == {1, DATA_SIZE, DATA_SIZE + 1, 18 * DATA_SIZE + 1}

\* PRG and SEQ files in turn
NextLayout ==
    /\ counts.calls < MaxLayoutOps
    /\ \E len \in LayoutLengths :
           AddFileStep(FreshName, IF counts.calls % 2 = 0 THEN PRG ELSE SEQ,
                       Content(len, counts.calls))

SpecLayout == Init /\ [][NextLayout]_vars

\* the file of n bytes whose entry is e lies in ceil(n / 254) sectors, each
\* but the last linked to the next and full, the last with the link
\* (0, bytes used)
LaidOut(img, e, bytes) ==
    LET chain == ChainList(img, e[2], e[3], << >>)
        count == SectorsPerFile(Len(bytes))
    IN  /\ Len(chain) = count
        /\ \A k \in 1..(count - 1) :
               /\ LinkOf(img, chain[k]) = chain[k + 1]
               /\ PayloadOf(img, chain[k]) = Slice(bytes, k - 1)
        /\ LinkOf(img, chain[count]) = <<0, Len(bytes) - (count - 1) * DATA_SIZE>>
        /\ SubSeq(PayloadOf(img, chain[count]), 1, Len(bytes) - (count - 1) * DATA_SIZE)
               = Slice(bytes, count - 1)
        /\ e[E_SIZE + 1] + 256 * e[E_SIZE + 2] = count

\* C29: after a successful addFile of n >= 1 bytes the file lies in exactly
\* ceil(n / 254) sectors, every sector but the last full and linked to the
\* next, the last with the link (0, bytes used), bytes used being n mod 254
\* or 254; the new entry is closed, has the type given, the name padded with
\* $A0 to 16 bytes, the first sector as start and the sector count as its
\* little-endian size.
C29_SequentialLayout ==
    (Added /\ Len(LastFile.bytes) >= 1) =>
        LET k == FindNamed(DirAfter.list, ret.name, 1)
            Entry(e) ==
                /\ e[1] >= 128
                /\ e[1] % 16 = ret.value[1]
                /\ FileNameOf(e) = PadTo(ret.name, FILE_NAME_SZ)
                /\ LaidOut(data, e, LastFile.bytes)
        IN  k > 0 /\ Entry(DirAfter.list[k])

\* ------------------------------------------------------------------------
\* The allocator on a loaded image
\* ------------------------------------------------------------------------
\* The files read: images of a full disk. Every track of the disk has free
\* count 0 and no free bit, but for `spare` sectors left free at the end of
\* the last track; with `extended` the bytes at $AC.. of the BAM sector
\* hold entries for tracks 36..40 with every sector free, as a drive with a
\* 40-track BAM writes them.
RECURSIVE FillTracks(_, _, _)
FillTracks(img, tracks, t) ==
    IF t >= tracks THEN img
    ELSE IF t + 1 = tracks THEN PutBytes(img, BamTrackOff(t), Zeros(4))
    ELSE CHOOSE filled \in
             {FillTracks(next, tracks, (t + tracks) \div 2) :
                  next \in {FillTracks(img, (t + tracks) \div 2, t)}} : TRUE

ExtendBam(img, t) == MarkAllFree(img, TRACKS_40, t)

FullImage(cx, spare, extended) ==
    LET full   == CHOOSE filled \in {FillTracks(blank, cx.tracks, 0) :
                                         blank \in {formatDisk(cx.tracks, cx.oob, NEW_DISK)}} : TRUE
        spared == IF spare = 0 THEN full
                  ELSE freeSector(cx.tracks, cx.oob, full, cx.tracks,
                                  SptAt(cx.tracks - 1, 0) - 1).img
    IN  IF extended THEN ExtendBam(spared, TRACKS_35) ELSE spared

\* load(filename) of such a file
LoadFullStep(spare, extended) ==
    /\ status = "run"
    /\ \E file \in {FullImage(This, spare, extended)} : data' = load(This, file)
    /\ ret' = Ret("load", TRUE)
    /\ prevData' = data
    /\ counts' = [counts EXCEPT !.calls = @ + 1]
    /\ UNCHANGED <<disktype, sptOob, replaceBit, lastSectorUsed, status, ub,
                   allocations, files, flip>>

MaxLoadedAllocs == 10

\* a load, then the allocation test
NextLoadedAlloc ==
    \/ counts.calls = 0 /\ \E spare \in {0, 1}, extended \in BOOLEAN :
                               LoadFullStep(spare, extended)
    \/ counts.calls > 0 /\ counts.calls <= MaxLoadedAllocs /\ AllocStep

SpecLoadedAlloc == Init /\ [][NextLoadedAlloc]_vars

\* The BAM entries the last call changed, as track numbers
ChangedBamTracks ==
    {t \in 1..TRACKS_40 :
        Bytes(data, BamTrackOff(t - 1), 4) # Bytes(prevData, BamTrackOff(t - 1), 4)}

\* C30: every address findAndAllocateFreeSector returns, and every address
\* whose BAM entry it changes, has 1 <= track <= TRACKS and
\* 0 <= sector < sectors_per_track(track); on a 35-track disk tracks 36..40
\* are never allocated or returned, whatever bytes the image holds.
C30_AllocatedAddressInRange ==
    ret.op = "findAndAllocateFreeSector" =>
        /\ ret.ok => ValidAddress(ret.track, ret.sector)
        /\ ChangedBamTracks \subseteq 1..TRACKS

\* ------------------------------------------------------------------------
\* Byte access (d64::readByte, d64::writeByte)
\* ------------------------------------------------------------------------
\* d64::writeByte(track, sector, byteoffset, value)
writeByte(cx, img, track, sector, byteoffset, value) ==
    LET offset == calcOffset(cx.tracks, track, sector) + byteoffset
    IN  IF offset >= 0 /\ offset < cx.size
        THEN [img |-> PutByte(img, offset, value), ok |-> TRUE]
        ELSE [img |-> img, ok |-> FALSE]

\* readByte(track, sector, byteoffset)
ReadByteStep(track, sector, byteoffset) ==
    /\ status = "run"
    /\ \E value \in {readByte(This, data, track, sector, byteoffset)} :
           ret' = [Ret("readByte", value >= 0) EXCEPT
                       !.track = track, !.sector = sector, !.value = <<byteoffset, value>>]
    /\ prevData' = data
    /\ counts' = [counts EXCEPT !.calls = @ + 1]
    /\ UNCHANGED <<disktype, sptOob, replaceBit, data, lastSectorUsed, status, ub,
                   allocations, files, flip>>

\* writeByte(track, sector, byteoffset, value)
WriteByteStep(track, sector, byteoffset, value) ==
    /\ status = "run"
    /\ \E r \in {writeByte(This, data, track, sector, byteoffset, value)} :
           /\ data' = r.img
           /\ ret' = [Ret("writeByte", r.ok) EXCEPT
                          !.track = track, !.sector = sector, !.value = <<byteoffset, value>>]
    /\ prevData' = data
    /\ counts' = [counts EXCEPT !.calls = @ + 1]
    /\ UNCHANGED <<disktype, sptOob, replaceBit, lastSectorUsed, status, ub,
                   allocations, files, flip>>

MaxByteOps == 1
\* addresses on the disk and one track or one sector past each end of it
ByteTracks == {0, 1, DIRECTORY_TRACK, TRACKS_35 + 1, TRACKS_40 + 1}
ByteSectors == {-1, 0, 22}
\* the link bytes and the last byte of a sector
ByteOffsets == {TRACK_SECTOR, SECTOR_SECTOR, SECTOR_SIZE - 1}

NextBytes ==
    /\ counts.calls < MaxByteOps
    /\ \E track \in ByteTracks, sector \in ByteSectors, byteoffset \in ByteOffsets :
          \/ ReadByteStep(track, sector, byteoffset)
          \/ WriteByteStep(track, sector, byteoffset, 7)

SpecBytes == Init /\ [][NextBytes]_vars

\* the last call was readByte or writeByte with an address calcOffset rejects
RejectedByteAccess ==
    /\ ret.op \in {"readByte", "writeByte"}
    /\ calcOffset(TRACKS, ret.track, ret.sector) = -1

\* C31: no sector is reached through an address calcOffset rejects; in
\* particular readByte and writeByte given such an address return failure
\* and neither read nor change a byte of the image.
C31_RejectedAddressNotUsed ==
    RejectedByteAccess => (~ret.ok /\ data = prevData)

\* ------------------------------------------------------------------------
\* Claims about the validity test of allocateSector and freeSector
\* ------------------------------------------------------------------------
\* C32: allocateSector and freeSector accept every address of the disk:
\* allocateSector(t, s) on a free sector returns true and marks it
\* allocated, freeSector(t, s) on an allocated sector other than (18,0) and
\* (18,1) returns true and marks it free, the last sector of a 21-sector
\* track included.
C32_ValidAddressAccepted ==
    (ret.op \in {"allocateSector", "freeSector"} /\ ValidAddress(ret.track, ret.sector)) =>
        /\ (ret.op = "allocateSector" /\ BamBit(prevData, ret.track - 1, ret.sector)) =>
               (ret.ok /\ ~BamBit(data, ret.track - 1, ret.sector))
        /\ (/\ ret.op = "freeSector"
            /\ ~BamBit(prevData, ret.track - 1, ret.sector)
            /\ <<ret.track, ret.sector>> \notin ProtectedSectors) =>
               (ret.ok /\ BamBit(data, ret.track - 1, ret.sector))

\* ------------------------------------------------------------------------
\* Claims about the order of the allocator's search
\* ------------------------------------------------------------------------
\* the order the tracks of the disk in use are to be searched in
SearchOrder ==
    IF disktype = thirty_five_track THEN TRACK_SEARCH_ORDER ELSE TRACK_40_SEARCH_ORDER

\* track t had a free sector before the last call
HadFreeSector(t) == \E s \in 0 .. SECTORS_PER_TRACK[t] - 1 : BamBit(prevData, t - 1, s)

\* C33: findAndAllocateFreeSector searches the tracks in the order 18, 17,
\* 19, 16, ..., 34, 1, 35 (then 36..40 on a 40-track disk): the track of the
\* sector it returns is in that order, and no track before it in the order
\* had a free sector at the time of the call.
C33_SearchOrder ==
    (ret.op = "findAndAllocateFreeSector" /\ ret.ok) =>
        \E k \in DOMAIN SearchOrder :
            /\ SearchOrder[k] = ret.track
            /\ \A j \in 1..(k - 1) : ~HadFreeSector(SearchOrder[j])

\* ------------------------------------------------------------------------
\* Claims about the scan of a track
\* ------------------------------------------------------------------------
\* sector s is the first free sector of track t met from position start,
\* going round the track, in the image img
FirstFreeFrom(img, t, start, s) ==
    LET n == SECTORS_PER_TRACK[t]
    IN  \E i \in 0 .. n - 1 :
            /\ s = (start + i) % n
            /\ BamBit(img, t - 1, s)
            /\ \A j \in 0 .. i - 1 : ~BamBit(img, t - 1, (start + j) % n)

\* a call of findAndAllocateFreeSector that returned true: the sector is the
\* first free one of its track from (lastSectorUsed + INTERLEAVE) mod the
\* sector count, it becomes the track's lastSectorUsed, and nothing is
\* recorded for any other track
ScanStep ==
    (ret'.op = "findAndAllocateFreeSector" /\ ret'.ok) =>
        /\ FirstFreeFrom(data, ret'.track,
                         (lastSectorUsed[ret'.track] + INTERLEAVE)
                             % SECTORS_PER_TRACK[ret'.track],
                         ret'.sector)
        /\ lastSectorUsed' = [lastSectorUsed EXCEPT ![ret'.track] = ret'.sector]
        /\ \A t \in 1 .. TRACKS_40 :
               t # ret'.track =>
                   Bytes(data', BamTrackOff(t - 1), 4) = Bytes(data, BamTrackOff(t - 1), 4)

\* C34: within the track it chooses, the allocator returns the first free
\* sector of the circular scan that starts at (lastSectorUsed[t] +
\* INTERLEAVE) mod sectors_per_track(t), skipping allocated sectors, and
\* records it as lastSectorUsed[t]; a track with free count 0 is skipped
\* and left as it was.
C34_CircularScan == [][ScanStep]_vars

\* two sectors in a row returned on the same track, the second one not at
\* the interleave distance from the first: the scan skipped allocated
\* sectors; and a track with free count 0 has been passed over
C34_Witness ==
    /\ ret.op = "findAndAllocateFreeSector"
    /\ ret.ok
    /\ Len(allocations) >= 19
    /\ BamFree(data, DIRECTORY_TRACK - 1) = 0
    /\ ret.track = DIRECTORY_TRACK - 1
    /\ allocations[Len(allocations) - 1][1] = ret.track
    /\ ret.sector # (allocations[Len(allocations) - 1][2] + INTERLEAVE)
                       % SECTORS_PER_TRACK[ret.track]

\* ------------------------------------------------------------------------
\* Claims about the unused bits of the BAM bitmaps
\* ------------------------------------------------------------------------
\* the positions of a track's 24-bit bitmap that stand for no sector
UnusedBits(t) == SECTORS_PER_TRACK[t] .. 23

\* the unused bits of every track are 1
UnusedBitsSet(img) ==
    \A t \in RealTracks : \A s \in UnusedBits(t) : BamBit(img, t - 1, s)

\* the unused bits of every track are what they were before the last call
UnusedBitsKept ==
    \A t \in RealTracks : \A s \in UnusedBits(t) :
        BamBit(data, t - 1, s) = BamBit(prevData, t - 1, s)

\* C35: after format every bit of a real sector, the two pre-allocated
\* sectors of the directory track excepted, is 1 and every unused high bit
\* beyond the track's sector count is 1; allocate, free and verify-repair
\* leave the unused bits as they are.
C35_UnusedBitsSet ==
    /\ FreshlyFormatted =>
           /\ UnusedBitsSet(data)
           /\ \A t \in RealTracks : \A s \in RealSectors(t) :
                  <<t, s>> \notin ProtectedSectors => BamBit(data, t - 1, s)
    /\ ret.op \in {"allocateSector", "freeSector", "findAndAllocateFreeSector",
                   "verifyBAMIntegrity"} => UnusedBitsKept

\* ------------------------------------------------------------------------
\* Claims about the side sectors of a relative file
\* ------------------------------------------------------------------------
\* const int MAX_SIDE_SECTORS in d64::addRelFile
MAX_SIDE_SECTORS == 6

\* The file read: the image of a formatted disk on which sector (17,20) is
\* in use, so that the allocator hands out every free sector once
UsedImage(cx) ==
    PutBytes(formatDisk(cx.tracks, cx.oob, NEW_DISK),
             BamTrackOff(DIRECTORY_TRACK - 2), <<20, 255, 255, 15>>)

\* load(filename) of that file
LoadUsedStep ==
    /\ status = "run"
    /\ \E file \in {UsedImage(This)} : data' = load(This, file)
    /\ ret' = Ret("load", TRUE)
    /\ prevData' = data
    /\ counts' = [counts EXCEPT !.calls = @ + 1]
    /\ UNCHANGED <<disktype, sptOob, replaceBit, lastSectorUsed, status, ub,
                   allocations, files, flip>>

\* addRelFile(filename, REL, record_size, fileData) of a test that keeps no
\* copy of the data for a later comparison
AddRelFileOnlyStep(filename, record_size, fileData) ==
    /\ status = "run"
    /\ filename \notin LiveNames
    /\ \E r \in {addRelFile(This, data, lastSectorUsed, filename, record_size, fileData)} :
           /\ data' = r.img
           /\ lastSectorUsed' = r.last
           /\ ub' = (ub \/ r.ub)
           /\ status' \in Outcome(r.out, r.ub)
           /\ ret' = [Ret("addRelFile", r.ok) EXCEPT !.name = filename,
                                                     !.value = <<record_size>>]
           /\ counts' = [counts EXCEPT !.calls = @ + 1,
                                       !.adds = IF r.ok THEN @ + 1 ELSE @]
    /\ prevData' = data
    /\ UNCHANGED <<disktype, sptOob, replaceBit, allocations, files, flip>>

MaxSideOps == 3

\* data that fills the chains of MAX_SIDE_SECTORS side sectors exactly
FullSidesData ==
    SubSeq(Content(MAX_SIDE_SECTORS * SIDE_SECTOR_CHAIN_SZ * DATA_SIZE, 0), 1,
           MAX_SIDE_SECTORS * SIDE_SECTOR_CHAIN_SZ * DATA_SIZE)

\* a load, then relative files: small ones, and as the first file of a
\* 40-track disk one as large as six side sectors can map
NextSides ==
    \/ counts.calls = 0 /\ LoadUsedStep
    \/ /\ counts.calls > 0
       /\ counts.calls < MaxSideOps
       /\ \/ \E sh \in RelShapes :
                AddRelFileStep(FreshName, sh[1], Content(sh[1] * sh[2], counts.calls))
          \/ /\ disktype = forty_track
             /\ counts.adds = 0
             /\ AddRelFileOnlyStep(FreshName, DATA_SIZE, FullSidesData)

SpecSides == Init /\ [][NextSides]_vars

\* the side sectors of the directoryEntry value entry, followed through
\* their next pointers
SideSectorsOf(img, entry) == ChainList(img, entry[E_SIDE + 1], entry[E_SIDE + 2], << >>)

\* the data-sector pointers a side sector holds
PointersOf(img, a) ==
    {i \in 0 .. SIDE_SECTOR_CHAIN_SZ - 1 :
        Byte(img, calcOffset(TRACKS, a[1], a[2]) + S_CHAIN + 2 * i) # 0}

\* C36: a relative file never has more than 6 side sectors: after any
\* addRelFile the side-sector chain of the file, followed through its next
\* pointers, has at most 6 sectors, each with at most 120 data-sector
\* pointers, whatever the size of the data and of the disk.
C36_AtMostSixSideSectors ==
    (status = "run" /\ ret.op = "addRelFile") =>
        \A k \in DOMAIN DirAfter.list :
            DirAfter.list[k][1] % 16 = REL =>
                /\ Len(SideSectorsOf(data, DirAfter.list[k])) <= MAX_SIDE_SECTORS
                /\ \A j \in DOMAIN SideSectorsOf(data, DirAfter.list[k]) :
                       Cardinality(PointersOf(data, SideSectorsOf(data, DirAfter.list[k])[j]))
                           <= SIDE_SECTOR_CHAIN_SZ

\* the last call was an addRelFile that returned true
AddedRel == status = "run" /\ ret.op = "addRelFile" /\ ret.ok

\* the side sectors of the file the last call named
SidesOfNamed ==
    LET Sides(f) == ChainList(data, Byte(data, f.entry + E_SIDE),
                              Byte(data, f.entry + E_SIDE + 1), << >>)
    IN  Sides(findFile(TRACKS, data, ret.name))

\* entry i (from 0) of the sibling list held by the side sector at address a
SiblingOf(img, a, i) == Bytes(img, calcOffset(TRACKS, a[1], a[2]) + S_SIDES + 2 * i, 2)

\* C37: after a successful addRelFile every side sector of the file holds
\* the same full sibling list, entry i of which is the track and the sector
\* of the file's i-th side sector, and the block index of the i-th side
\* sector is i.
C37_SiblingList ==
    AddedRel =>
        /\ findFile(TRACKS, data, ret.name).entry >= 0
        /\ Len(SidesOfNamed) >= 1
        /\ \A j, i \in DOMAIN SidesOfNamed :
               SiblingOf(data, SidesOfNamed[j], i - 1) = SidesOfNamed[i]
        /\ \A i \in DOMAIN SidesOfNamed :
               Byte(data, calcOffset(TRACKS, SidesOfNamed[i][1], SidesOfNamed[i][2]) + 2)
                   = i - 1

\* ------------------------------------------------------------------------
\* Adds on a disk that is nearly full
\* ------------------------------------------------------------------------
\* a file to load: a formatted disk with n one-byte files on it, on which
\* the BAM marks every sector allocated but the first spare sectors of
\* track 1
NearlyFullImage(cx, n, spare) ==
    LET full == CHOOSE filled \in {FillTracks(written, cx.tracks, 0) :
                                       written \in {WrittenImage(cx, n)}} : TRUE
    IN  PutBytes(full, BamTrackOff(0), <<spare, Pow2(spare) - 1, 0, 0>>)

\* load(filename) of such a file
LoadNearlyFullStep(n, spare) ==
    /\ status = "run"
    /\ \E file \in {NearlyFullImage(This, n, spare)} : data' = load(This, file)
    /\ ret' = Ret("load", TRUE)
    /\ files' = [k \in 1..n |->
                    [name |-> Name(k), kind |-> "seq", bytes |-> <<64 + k>>,
                     bam |-> BamSector(WrittenImage(This, k - 1)),
                     bamAfter |-> BamSector(WrittenImage(This, k))]]
    /\ prevData' = data
    /\ counts' = [counts EXCEPT !.calls = @ + 1, !.adds = n, !.removes = 0]
    /\ UNCHANGED <<disktype, sptOob, replaceBit, lastSectorUsed, status, ub,
                   allocations, flip>>

MaxSpare == 3
MaxFullAddOps == 4
FullAddFiles == {0, 7}
FullAddLengths == {1, 600}

\* a load, then adds of files of one and of three data sectors and calls of
\* the verifier
NextFullAdd ==
    \/ counts.calls = 0 /\ \E n \in FullAddFiles, spare \in 0..MaxSpare :
                               LoadNearlyFullStep(n, spare)
    \/ /\ counts.calls > 0
       /\ counts.calls < MaxFullAddOps
       /\ \/ \E len \in FullAddLengths :
                 AddFileStep(Name(20 + counts.calls), PRG, Content(len, 0))
          \/ \E len \in FullAddLengths :
                 AddRelFileStep(Name(20 + counts.calls), 2, Content(len, 0))
          \/ \E fix \in BOOLEAN : VerifyStep(fix)

SpecFullAdd == Init /\ [][NextFullAdd]_vars

\* the slots of the sectors in the directory chain of img
ChainSlots(img) ==
    LET Slots(d) ==
            {EntryOff(calcOffset(TRACKS, d.sectors[k][1], d.sectors[k][2]), i) :
                 k \in 1..Len(d.sectors), i \in 0..(FILES_PER_SECTOR - 1)}
    IN  Slots(DirChain(TRACKS, img))

\* the slot at e is live, or the 30 bytes of its fields are all 0
LiveOrZeroed(img, e) ==
    Closed(img, e) \/ \A k \in 0..(DIR_ENTRY_SZ - 1) : Byte(img, e + k) = 0

WellFormedChains(img) ==
    LET Ended(u) == u.out = "ok" /\ \A k \in u.usage : InUsage(k)
    IN  Ended(SectorUsage(This, img))

\* the sectors whose BAM bit disagrees with the chains of img, and (with
\* sector -1) the tracks whose free count is not the number of sectors
\* outside the chains
Discrepancies(img) ==
    LET Against(usage) ==
            {<<t, s>> \in (0..(TRACKS - 1)) \X (0..20) :
                 s < SptAt(t, 0) /\ (Flat(t, s) \in usage) = BamBit(img, t, s)}
            \cup {<<t, -1>> : t \in {t \in 0..(TRACKS - 1) :
                     BamFree(img, t) # Cardinality({s \in 0..(SptAt(t, 0) - 1) :
                                                       Flat(t, s) \notin usage})}}
    IN  Against(SectorUsage(This, img).usage)

Verified == status = "run" /\ ret.op = "verifyBAMIntegrity" /\ WellFormedChains(prevData)

\* C39: on a state with well-formed chains verifyBAMIntegrity(false) changes
\* no byte of the image; verifyBAMIntegrity(true) and (false) return the
\* same boolean, false exactly when a bitmap or free-count discrepancy
\* exists; and verifyBAMIntegrity(false) right after verifyBAMIntegrity(true)
\* returns true.
C39_VerifyModes ==
    Verified =>
        /\ ~ret.fix => data = prevData
        /\ ret.ok = verifyBAMIntegrity(This, prevData, ~ret.fix).ok
        /\ ret.ok = (Discrepancies(prevData) = {})
        /\ ret.fix => verifyBAMIntegrity(This, data, FALSE).ok

\* verifyBAMIntegrity(true) found discrepancies and repaired the BAM
C39_Witness ==
    Verified /\ ret.fix /\ ~ret.ok /\ data # prevData /\ Discrepancies(data) = {}

\* ------------------------------------------------------------------------
\* Recovery after an add that failed
\* ------------------------------------------------------------------------
\* the last call was an add that returned false: prevData is the image
\* before it and data the image it left
FailedAdd == status = "run" /\ ret.op \in {"addFile", "addRelFile"} /\ ~ret.ok

\* the sectors that were free in the BAM of before and are not in that of
\* after
AllocatedBetween(before, after) ==
    {ts \in RealTracks \X (0..20) :
         /\ ts[2] \in RealSectors(ts[1])
         /\ BamBit(before, ts[1] - 1, ts[2])
         /\ ~BamBit(after, ts[1] - 1, ts[2])}

\* the step from a failed add to the end of verifyBAMIntegrity(true): it
\* ends; the sectors the add took are free; the files read as they did
\* before the add; and verifyBAMIntegrity(false) then returns true
Recovered ==
    (FailedAdd /\ ret'.op = "verifyBAMIntegrity" /\ ret'.fix) =>
        /\ status' = "run"
        /\ \A ts \in AllocatedBetween(prevData, data) : BamBit(data', ts[1] - 1, ts[2])
        /\ \A name \in LiveNames :
               readFile(This, data', name) = readFile(This, prevData, name)
        /\ verifyBAMIntegrity(This, data', FALSE).ok

\* C40: after an addFile or addRelFile that failed with disk full the list
\* directory() returns is the one of before the call, and
\* verifyBAMIntegrity(true) recovers the disk: it terminates, every sector
\* the failed add had allocated is free again, every live file reads back
\* unchanged, and verifyBAMIntegrity(false) after it returns true.
C40_FailedAddRecovers ==
    [][(FailedAdd => DirAfter = DirBefore) /\ Recovered]_vars

====
